---- MODULE Spec2Model ----
(***************************************************************************)
(* A model of the Warcraft III replay decoder Replay::from_bytes           *)
(* (src/src/replay.rs).  The decoder is one straight-line pass; its loops  *)
(* are modelled one iteration per step:                                    *)
(*   - the container loop over the compressed blocks  (SpecContainer),     *)
(*   - the slot-table loop of the GameStartRecord     (SpecSlots),         *)
(*   - the ReplayData record loop                     (Spec).              *)
(* Bytes are integers 0..255.  A u32 is kept as its two 16-bit halves      *)
(* <<lo, hi>> so that every value of the width is representable.           *)
(***************************************************************************)
EXTENDS Integers, Sequences, FiniteSets, TLC

VARIABLES
    \* ---- the build and the environment of the call
    overflow_checks,    \* rustc overflow-checks: on (debug profile) or off (release)
    pointer_width,      \* 32 (wasm32, the crate's target) or 64
    eof_seeks_end,      \* std's Cursor::read_exact leaves the position at the end of
                        \* the input after a short read (newer std) or where it was
    log_enabled,        \* whether a logger is installed (lib.rs debug_init), i.e.
                        \* whether the arguments of info!/warn! are evaluated
    \* ---- the container layer (replay.rs 266-330)
    bytes,              \* the input file
    reader_pos,         \* reader.position()
    version,            \* header byte 0x24 (-1 before the header is read)
    num_data_blocks,    \* header bytes 44..48, a u32
    k,                  \* number of blocks iterated
    i,                  \* u32 offset counter used for logging
    inflated,           \* ghost: the `out` of every block appended so far, in order
    \* ---- the inflated stream and its cursor (replay.rs 334-790)
    data,               \* the inflated byte stream
    pos,                \* cursor.position()
    next_record_id,
    player_list,        \* HashMap<u8, ReplayPlayer>
    slots,              \* Vec<Slot>
    count_slotrecords,
    chat,               \* Vec<ChatMessage>
    actions,            \* Vec<Action>
    current_timestamp,
    records,            \* HashMap<u8, u64>: tally of the record ids handled
    action_records,     \* HashMap<u8, u64>: tally of the action opcodes read
    last_leaver_index,
    leave_log,          \* ghost: player_id of every 0x17 record handled, in order
    walk_log,           \* ghost: every actor block walked by a TimeSlot, in order
    report,             \* the returned Replay (<<>> until the decode returns)
    pc                  \* where the decode stands

vars == <<overflow_checks, pointer_width, eof_seeks_end, log_enabled,
          bytes, reader_pos, version, num_data_blocks, k, i, inflated,
          data, pos, next_record_id, player_list, slots, count_slotrecords,
          chat, actions, current_timestamp, records, action_records,
          last_leaver_index, leave_log, walk_log, report, pc>>

buildVars == <<overflow_checks, pointer_width, eof_seeks_end, log_enabled>>
containerVars == <<bytes, reader_pos, version, num_data_blocks, k, i, inflated>>
recordVars == <<next_record_id, chat, actions, current_timestamp, records,
                action_records, last_leaver_index, leave_log, walk_log>>

(***************************************************************************)
(* Sequences of bytes                                                      *)
(***************************************************************************)
Byte == 0..255

RECURSIVE Concat(_)
Concat(ss) ==
    IF ss = <<>> THEN <<>> ELSE Head(ss) \o Concat(Tail(ss))

Take(s, n) ==
    IF n >= Len(s) THEN s ELSE SubSeq(s, 1, n)

Repeat(b, n) ==
    [j \in 1..n |-> b]

Last(s) ==
    s[Len(s)]

LE16(n) ==
    <<n % 256, (n \div 256) % 256>>

\* Option<T>: None is <<>>, Some(v) is <<v>>.
None == <<>>

Some(v) == <<v>>

(***************************************************************************)
(* parse_word / parse_dword (replay.rs 183-197): little-endian             *)
(***************************************************************************)
parse_word(bs) ==
    bs[1] + 256 * bs[2]

\* the u32 as <<low half, high half>>
parse_dword(bs) ==
    <<bs[1] + 256 * bs[2], bs[3] + 256 * bs[4]>>

\* a u32 below 2^31 as an integer
U32Fits(d) ==
    d[2] < 32768

U32Int(d) ==
    d[1] + 65536 * d[2]

U32Of(n) ==
    <<n % 65536, n \div 65536>>

U32Less(a, b) ==
    a[2] < b[2] \/ (a[2] = b[2] /\ a[1] < b[1])

\* a + b in u32: the sum modulo 2^32 and whether it overflowed
U32Add(a, b) ==
    LET lo == a[1] + b[1]
        hi == a[2] + b[2] + (lo \div 65536)
    IN  [sum |-> <<lo % 65536, hi % 65536>>, overflow |-> hi >= 65536]

(***************************************************************************)
(* The byte cursor (std::io::Cursor over a byte sequence d, position p)    *)
(***************************************************************************)
\* Cursor::remaining_slice: the position is clamped to the length
Remaining(d, p) ==
    IF p >= Len(d) THEN 0 ELSE Len(d) - p

\* read_exact(n) succeeds iff n bytes remain
CanRead(d, p, n) ==
    Remaining(d, p) >= n

\* the n bytes at position p (only used where CanRead holds)
BytesAt(d, p, n) ==
    SubSeq(d, p + 1, p + n)

ByteAt(d, p) ==
    d[p + 1]

\* BufRead::read_until(0x00): the position after the first 0x00 at or after
\* p, or the end of the input when there is none
RECURSIVE ReadUntilNul(_, _)
ReadUntilNul(d, p) ==
    IF p >= Len(d) THEN p
    ELSE IF d[p + 1] = 0 THEN p + 1
    ELSE ReadUntilNul(d, p + 1)

(***************************************************************************)
(* String::from_utf8_lossy: the code points of a byte string; every        *)
(* maximal ill-formed subpart becomes U+FFFD (65533).                      *)
(***************************************************************************)
IsCont(s, j) ==
    j <= Len(s) /\ s[j] >= 128 /\ s[j] <= 191

InRange(s, j, lo, hi) ==
    j <= Len(s) /\ s[j] >= lo /\ s[j] <= hi

\* the lower and upper bound of the second byte after lead byte b
SecondLo(b) ==
    IF b = 224 THEN 160 ELSE IF b = 240 THEN 144 ELSE 128

SecondHi(b) ==
    IF b = 237 THEN 159 ELSE IF b = 244 THEN 143 ELSE 191

RECURSIVE from_utf8_lossy(_)
from_utf8_lossy(s) ==
    IF s = <<>> THEN <<>>
    ELSE LET b == s[1]
             rest(n) == from_utf8_lossy(SubSeq(s, n + 1, Len(s)))
         IN  IF b < 128 THEN <<b>> \o rest(1)
             ELSE IF b >= 194 /\ b <= 223
                  THEN IF IsCont(s, 2)
                       THEN <<(b - 192) * 64 + (s[2] - 128)>> \o rest(2)
                       ELSE <<65533>> \o rest(1)
             ELSE IF b >= 224 /\ b <= 239
                  THEN IF ~InRange(s, 2, SecondLo(b), SecondHi(b))
                       THEN <<65533>> \o rest(1)
                       ELSE IF ~IsCont(s, 3)
                       THEN <<65533>> \o rest(2)
                       ELSE <<(b - 224) * 4096 + (s[2] - 128) * 64 + (s[3] - 128)>>
                            \o rest(3)
             ELSE IF b >= 240 /\ b <= 244
                  THEN IF ~InRange(s, 2, SecondLo(b), SecondHi(b))
                       THEN <<65533>> \o rest(1)
                       ELSE IF ~IsCont(s, 3)
                       THEN <<65533>> \o rest(2)
                       ELSE IF ~IsCont(s, 4)
                       THEN <<65533>> \o rest(3)
                       ELSE <<(b - 240) * 262144 + (s[2] - 128) * 4096
                              + (s[3] - 128) * 64 + (s[4] - 128)>> \o rest(4)
             ELSE <<65533>> \o rest(1)

(***************************************************************************)
(* cursor_read_nullterminated_string (replay.rs 211-217).                  *)
(* read_until never fails on a Cursor; the slice [..len-1] panics (index   *)
(* out of range, or the subtraction overflows) when nothing was read, and  *)
(* drops the last byte read whether or not it is the 0x00.                 *)
(***************************************************************************)
CStringOk(d, p) ==
    ReadUntilNul(d, p) > p

CStringEnd(d, p) ==
    ReadUntilNul(d, p)

CStringValue(d, p) ==
    from_utf8_lossy(SubSeq(d, p + 1, ReadUntilNul(d, p) - 1))

(***************************************************************************)
(* Enumerations (replay.rs 74-92): from_u32 / from_u8 followed by          *)
(* .or(UNKNOWN); the variants are named by their labels.                   *)
(***************************************************************************)
\* a variant that looks at the low byte of the reason only
LeaveReason_from_low_byte(d) ==
    IF d[1] % 256 = 1 THEN "CONNECTION_CLOSED_BY_REMOTE_GAME"
    ELSE IF d[1] % 256 = 12 THEN "CONNECTION_CLOSED_BY_LOCAL_GAME"
    ELSE "UNKNOWN"

\* LeaveReason::from_u32 of a u32 <<lo, hi>>; the implicit discriminant of
\* UNKNOWN is 0x0D
LeaveReason_from_u32(d) ==
    IF d = <<1, 0>> THEN "CONNECTION_CLOSED_BY_REMOTE_GAME"
    ELSE IF d = <<12, 0>> THEN "CONNECTION_CLOSED_BY_LOCAL_GAME"
    ELSE "UNKNOWN"

\* a variant without the MINIMAP_SIGNAL discriminant
ActionType_from_u8_short(op) ==
    IF op = 1 THEN "PAUSE"
    ELSE IF op = 2 THEN "RESUME"
    ELSE IF op = 6 THEN "SAVE_GAME"
    ELSE IF op = 7 THEN "SAVE_GAME_DONE"
    ELSE "UNKNOWN"

\* ActionType::from_u8; the implicit discriminant of UNKNOWN is 0x69
ActionType_from_u8(op) ==
    IF op = 1 THEN "PAUSE"
    ELSE IF op = 2 THEN "RESUME"
    ELSE IF op = 6 THEN "SAVE_GAME"
    ELSE IF op = 7 THEN "SAVE_GAME_DONE"
    ELSE IF op = 104 THEN "MINIMAP_SIGNAL"
    ELSE "UNKNOWN"

(***************************************************************************)
(* The action opcodes whose body is a fixed number of bytes that the       *)
(* parser seeks over (replay.rs 573-721), as pairs <<opcode, width>>.      *)
(***************************************************************************)
FixedBodies ==
    { <<1, 0>>, <<2, 0>>, <<4, 0>>, <<5, 0>>, <<7, 4>>,
      <<16, 14>>, <<17, 22>>, <<18, 30>>, <<19, 38>>, <<20, 43>>,
      <<24, 2>>, <<25, 12>>, <<26, 0>>, <<27, 9>>, <<28, 9>>, <<29, 8>>,
      <<30, 5>>, <<33, 8>>,
      <<32, 0>>, <<34, 0>>, <<35, 0>>, <<36, 0>>, <<37, 0>>, <<38, 0>>,
      <<39, 5>>, <<41, 0>>, <<42, 0>>, <<43, 0>>, <<44, 0>>, <<45, 5>>,
      <<46, 4>>, <<47, 0>>, <<48, 0>>, <<49, 0>>, <<50, 0>>,
      <<80, 5>>, <<81, 9>>,
      <<97, 0>>, <<98, 12>>, <<102, 0>>, <<103, 0>>,
      <<105, 16>>, <<106, 16>>, <<117, 1>>, <<122, 20>>, <<123, 16>> }

HasFixedBody(op) ==
    \E e \in FixedBodies : e[1] = op

FixedBody(op) ==
    (CHOOSE e \in FixedBodies : e[1] = op)[2]

(***************************************************************************)
(* Action 0x60 (replay.rs 670-687): the command is appended to chat unless *)
(* an entry with the same text lies within 500 ms of current_timestamp.    *)
(***************************************************************************)
abs_diff(a, b) ==
    IF a >= b THEN a - b ELSE b - a

\* a variant that compares with the last entry of chat only
ChatShadowedByLast(ch, command, ts) ==
    /\ ch # <<>>
    /\ ch[Len(ch)].message = command
    /\ abs_diff(ch[Len(ch)].timestamp, ts) < 500

\* a variant that compares the text only, whatever the timestamps
ChatShadowedAnyTime(ch, command, ts) ==
    \E j \in 1..Len(ch) : ch[j].message = command

ChatShadowed(ch, command, ts) ==
    \E j \in 1..Len(ch) :
        ch[j].message = command /\ abs_diff(ch[j].timestamp, ts) < 500

PushChatCommand(ch, command, ts, actor) ==
    IF ChatShadowed(ch, command, ts) THEN ch
    ELSE Append(ch, [message |-> command,
                     timestamp |-> ts,
                     flag |-> None,
                     recipient_slot_number |-> None,
                     sender_player_id |-> actor])

(***************************************************************************)
(* One opcode of an action block (replay.rs 573-733), after the opcode     *)
(* byte was read: p is the position after it.  The result gives whether    *)
(* the reads succeeded (ok), the position after the body, the action's     *)
(* data, the chat list and whether the walk is left (brk).                 *)
(***************************************************************************)
BodyResult(ok, p, dat, ch, brk) ==
    [ok |-> ok, pos |-> p, data |-> dat, chat |-> ch, brk |-> brk]

\* default arm (replay.rs 723-732): read the rest of the block and break.
\* left_bytes = blen as u64 - cur_pos + position_before_read is evaluated
\* left to right: the subtraction overflows when cur_pos > blen.
DefaultBody(d, p, blen, pbr, ch) ==
    LET left == blen - (p - pbr)
    IN  IF blen < p /\ overflow_checks THEN BodyResult(FALSE, p, None, ch, TRUE)
        ELSE IF left < 0 THEN BodyResult(FALSE, p, None, ch, TRUE)
        ELSE IF ~CanRead(d, p, left) THEN BodyResult(FALSE, p, None, ch, TRUE)
        ELSE BodyResult(TRUE, p + left, None, ch, TRUE)

ActionBody(d, p, op, blen, pbr, ch, ts, actor) ==
    IF HasFixedBody(op)
    THEN BodyResult(TRUE, p + FixedBody(op), None, ch, FALSE)
    ELSE IF op = 3
    THEN BodyResult(CanRead(d, p, 1), p + 1, None, ch, FALSE)
    ELSE IF op = 6
    THEN IF CStringOk(d, p)
         THEN BodyResult(TRUE, CStringEnd(d, p),
                         Some([location |-> None,
                               savegame_name |-> Some(CStringValue(d, p))]),
                         ch, FALSE)
         ELSE BodyResult(FALSE, p, None, ch, FALSE)
    ELSE IF op = 22 \/ op = 23
    THEN IF CanRead(d, p, 3)
         THEN BodyResult(TRUE, p + 3 + 8 * parse_word(BytesAt(d, p + 1, 2)),
                         None, ch, FALSE)
         ELSE BodyResult(FALSE, p, None, ch, FALSE)
    ELSE IF op = 96
    THEN IF CanRead(d, p, 8) /\ CStringOk(d, p + 8)
         THEN BodyResult(TRUE, CStringEnd(d, p + 8), None,
                         PushChatCommand(ch, CStringValue(d, p + 8), ts, actor),
                         FALSE)
         ELSE BodyResult(FALSE, p, None, ch, FALSE)
    ELSE IF op = 104
    THEN IF CanRead(d, p, 8)
         THEN BodyResult(TRUE, p + 8,
                         Some([location |->
                                  Some([x |-> parse_dword(BytesAt(d, p, 4)),
                                        y |-> parse_dword(BytesAt(d, p + 4, 4))]),
                               savegame_name |-> None]),
                         ch, FALSE)
         ELSE BodyResult(FALSE, p, None, ch, FALSE)
    ELSE DefaultBody(d, p, blen, pbr, ch)

\* action_records tally (replay.rs 559-564)
Tally(t, id) ==
    IF id \in DOMAIN t THEN [t EXCEPT ![id] = @ + 1]
    ELSE [x \in DOMAIN t \cup {id} |-> IF x = id THEN 1 ELSE t[x]]

(***************************************************************************)
(* The opcode walk of one actor's block (replay.rs 554-739).  st holds the *)
(* decoder state the walk changes; st.ok = FALSE is a panic; st.underflow  *)
(* tells that a subtraction from len_following went below 0.               *)
(***************************************************************************)
RECURSIVE OpcodeWalk(_, _, _, _, _, _, _)
OpcodeWalk(d, st, actor, blen, pbr, cur_read_bytes, ts) ==
    IF ~st.ok \/ ~(cur_read_bytes < blen) THEN st
    ELSE IF ~CanRead(d, st.pos, 1) THEN [st EXCEPT !.ok = FALSE]
    ELSE
      LET op == ByteAt(d, st.pos)
          r == ActionBody(d, st.pos + 1, op, blen, pbr, st.chat, ts, actor)
          action == [player_id |-> actor,
                     action_type |-> ActionType_from_u8(op),
                     timestamp |-> ts,
                     data |-> r.data]
          cur_bytes == (r.pos - st.pos) % 65536
          sum == cur_read_bytes + cur_bytes
          tallied == [st EXCEPT !.action_records = Tally(@, op)]
      IN  IF ~r.ok THEN [tallied EXCEPT !.ok = FALSE]
          ELSE IF r.brk THEN [tallied EXCEPT !.pos = r.pos, !.brk = TRUE]
          ELSE IF sum >= 65536 /\ overflow_checks
          THEN [tallied EXCEPT !.ok = FALSE]
          ELSE OpcodeWalk(d,
                          [tallied EXCEPT !.pos = r.pos,
                                          !.chat = r.chat,
                                          !.actions = Append(@, action)],
                          actor, blen, pbr, sum % 65536, ts)

\* a - b in u16: with overflow checks an underflow panics, without it wraps;
\* under tells that a < b
U16Sub(a, b) ==
    IF a >= b THEN [ok |-> TRUE, val |-> a - b, under |-> FALSE]
    ELSE [ok |-> ~overflow_checks, val |-> a - b + 65536, under |-> TRUE]

(***************************************************************************)
(* The action-block loop of a TimeSlot (replay.rs 546-744)                 *)
(***************************************************************************)
\* ghost: what the walk of one actor block did; st is the state before the
\* block header was read, w the state after the walk
Walk(actor, blen, pbr, st, w, len_after) ==
    [actor |-> actor, block_len |-> blen, start |-> pbr, end |-> w.pos,
     len_before |-> st.len_following, len_after |-> len_after,
     actions_before |-> Len(st.actions), actions_after |-> Len(w.actions),
     chat_before |-> Len(st.chat), chat_after |-> Len(w.chat),
     unknown_opcode |-> w.brk, timestamp |-> w.timestamp]

RECURSIVE ActionBlocks(_, _, _)
ActionBlocks(d, st, ts) ==
    IF ~CanRead(d, st.pos, 3) THEN [st EXCEPT !.ok = FALSE]
    ELSE
      LET cur_action_player_id == ByteAt(d, st.pos)
          cur_action_blocks_length == parse_word(BytesAt(d, st.pos + 1, 2))
          lf1 == U16Sub(st.len_following, 3)
          position_before_read == st.pos + 3
          touched == [q \in DOMAIN st.player_list |->
                        IF q = cur_action_player_id
                        THEN [st.player_list[q] EXCEPT !.left_at = ts]
                        ELSE st.player_list[q]]
          w == OpcodeWalk(d,
                          [st EXCEPT !.pos = position_before_read,
                                     !.player_list = touched,
                                     !.brk = FALSE,
                                     !.underflow = @ \/ lf1.under],
                          cur_action_player_id, cur_action_blocks_length,
                          position_before_read, 0, ts)
          lf2 == U16Sub(lf1.val, (w.pos - position_before_read) % 65536)
          walked == [w EXCEPT !.len_following = lf2.val,
                              !.underflow = @ \/ lf2.under,
                              !.walks = Append(@,
                                  Walk(cur_action_player_id,
                                       cur_action_blocks_length,
                                       position_before_read, st, w, lf2.val))]
      IN  IF ~lf1.ok THEN [st EXCEPT !.ok = FALSE, !.underflow = TRUE]
          ELSE IF ~w.ok THEN w
          ELSE IF ~lf2.ok THEN [w EXCEPT !.ok = FALSE, !.underflow = TRUE]
          ELSE IF lf2.val < 1 THEN walked
          ELSE ActionBlocks(d, walked, ts)

\* current_timestamp += increment as u64 (line 540).  The sum of the u16
\* increments of an input that fits in memory stays far below 2^64.
\* a variant that assigns the increment instead of adding it
AdvanceTimeAssign(ts, increment) ==
    increment

AdvanceTime(ts, increment) ==
    ts + increment

(***************************************************************************)
(* Record 0x1E / 0x1F TimeSlot (replay.rs 536-750), p the position after   *)
(* the record id.  The result carries the new current_timestamp.           *)
(***************************************************************************)
TimeSlot(d, p, ch, acts, pl, ar, ts) ==
    LET st0 == [ok |-> TRUE, pos |-> p, chat |-> ch, actions |-> acts,
                player_list |-> pl, action_records |-> ar,
                len_following |-> 0, timestamp |-> ts,
                brk |-> FALSE, walks |-> <<>>, underflow |-> FALSE]
    IN  IF ~CanRead(d, p, 4) THEN [st0 EXCEPT !.ok = FALSE]
        ELSE
          LET increment == parse_word(BytesAt(d, p + 2, 2))
              now == AdvanceTime(ts, increment)
              lf == U16Sub(parse_word(BytesAt(d, p, 2)), 2)
              st1 == [st0 EXCEPT !.pos = p + 4, !.timestamp = now,
                                 !.len_following = lf.val,
                                 !.underflow = lf.under]
          IN  IF ~lf.ok THEN [st1 EXCEPT !.ok = FALSE]
              ELSE IF lf.val > 3 THEN ActionBlocks(d, st1, now)
              ELSE st1

(***************************************************************************)
(* The ReplayData record loop (replay.rs 497-831)                          *)
(***************************************************************************)
\* a variant that reads the same record id again instead of the next one
NextRecordAgain(p, id) ==
    /\ records' = Tally(records, id)
    /\ next_record_id' = next_record_id
    /\ pos' = pos
    /\ pc' = "records"

\* lines 783-789: tally the record handled, read the next record id
NextRecord(p, id) ==
    /\ records' = Tally(records, id)
    /\ IF CanRead(data, p, 1)
       THEN /\ next_record_id' = ByteAt(data, p)
            /\ pos' = p + 1
            /\ pc' = "records"
       ELSE /\ next_record_id' = next_record_id
            /\ pos' = p
            /\ pc' = "panic"

\* a read failed inside a record handler: the unwrap panics
RecordPanic ==
    /\ pc' = "panic"
    /\ UNCHANGED <<pos, player_list, recordVars>>

\* lines 500-507
BeginReplayData ==
    /\ pc = "replay_data"
    /\ IF CanRead(data, pos, 1)
       THEN /\ next_record_id' = ByteAt(data, pos)
            /\ pos' = pos + 1
            /\ pc' = "records"
       ELSE /\ pc' = "panic"
            /\ UNCHANGED <<next_record_id, pos>>
    /\ chat' = <<>>
    /\ current_timestamp' = 0
    /\ records' = <<>>
    /\ action_records' = <<>>
    /\ actions' = <<>>
    /\ last_leaver_index' = 0
    /\ UNCHANGED <<buildVars, containerVars, data, player_list, slots,
                   count_slotrecords, leave_log, walk_log, report>>

\* record 0x17 LeaveGame (lines 512-526)
RecordLeaveGame ==
    /\ pc = "records"
    /\ next_record_id = 23
    /\ IF ~CanRead(data, pos, 9) THEN RecordPanic
       ELSE
         LET cur_leave_reason == LeaveReason_from_u32(parse_dword(BytesAt(data, pos, 4)))
             cur_player_id == ByteAt(data, pos + 4)
             cur_result == parse_dword(BytesAt(data, pos + 5, 4))
         IN  /\ player_list' =
                   [q \in DOMAIN player_list |->
                      IF q = cur_player_id
                      THEN [player_list[q] EXCEPT
                              !.leave_reason = cur_leave_reason,
                              !.result_byte = cur_result[1] % 256]
                      ELSE player_list[q]]
             /\ last_leaver_index' = cur_player_id
             /\ leave_log' = Append(leave_log, cur_player_id)
             /\ NextRecord(pos + 13, 23)
             /\ UNCHANGED <<chat, actions, current_timestamp, action_records,
                            walk_log>>
    /\ UNCHANGED <<buildVars, containerVars, data, slots, count_slotrecords, report>>

\* a variant that also skips 4 bytes after record id 0x99
SkippedRecordsAnd99 ==
    { <<26, 4>>, <<27, 4>>, <<28, 4>>, <<34, 5>>, <<35, 10>>, <<47, 8>>,
      <<153, 4>> }

\* the records that are skipped: id and width (lines 527-535, 765-773)
SkippedRecords ==
    { <<26, 4>>, <<27, 4>>, <<28, 4>>, <<34, 5>>, <<35, 10>>, <<47, 8>> }

RecordSkip ==
    /\ pc = "records"
    /\ \E e \in SkippedRecords :
          /\ next_record_id = e[1]
          /\ NextRecord(pos + e[2], e[1])
    /\ UNCHANGED <<buildVars, containerVars, data, player_list, slots,
                   count_slotrecords, chat, actions, current_timestamp,
                   action_records, last_leaver_index, leave_log, walk_log, report>>

\* records 0x1E / 0x1F TimeSlot (lines 536-750)
RecordTimeSlot ==
    /\ pc = "records"
    /\ next_record_id \in {30, 31}
    /\ LET st == TimeSlot(data, pos, chat, actions, player_list, action_records,
                          current_timestamp)
       IN  IF ~st.ok THEN RecordPanic
           ELSE /\ chat' = st.chat
                /\ actions' = st.actions
                /\ player_list' = st.player_list
                /\ action_records' = st.action_records
                /\ current_timestamp' = st.timestamp
                /\ walk_log' = walk_log \o st.walks
                /\ NextRecord(st.pos, next_record_id)
                /\ UNCHANGED <<last_leaver_index, leave_log>>
    /\ UNCHANGED <<buildVars, containerVars, data, slots, count_slotrecords, report>>

\* (raw - 2) as i8 of a u32 raw = <<lo, hi>> (line 755): the low byte of the
\* difference, read as a signed byte; raw < 2 overflows the subtraction
RecipientSlot(raw) ==
    LET low == ((raw[1] % 256) + 254) % 256
    IN  IF low >= 128 THEN low - 256 ELSE low

RecipientUnderflows(raw) ==
    raw[2] = 0 /\ raw[1] < 2

\* record 0x20 ChatMessage (lines 751-764)
RecordChatMessage ==
    /\ pc = "records"
    /\ next_record_id = 32
    /\ IF ~(CanRead(data, pos, 1) /\ CanRead(data, pos + 3, 5)
            /\ CStringOk(data, pos + 8))
       THEN RecordPanic
       ELSE
         LET cur_player_id == ByteAt(data, pos)
             cur_flag == ByteAt(data, pos + 3)
             raw == parse_dword(BytesAt(data, pos + 4, 4))
         IN  IF RecipientUnderflows(raw) /\ overflow_checks THEN RecordPanic
             ELSE /\ chat' = Append(chat,
                        [sender_player_id |-> cur_player_id,
                         flag |-> Some(cur_flag),
                         recipient_slot_number |-> Some(RecipientSlot(raw)),
                         message |-> CStringValue(data, pos + 8),
                         timestamp |-> current_timestamp])
                  /\ NextRecord(CStringEnd(data, pos + 8), 32)
                  /\ UNCHANGED <<player_list, actions, current_timestamp,
                                 action_records, last_leaver_index, leave_log,
                                 walk_log>>
    /\ UNCHANGED <<buildVars, containerVars, data, slots, count_slotrecords, report>>

\* the candidates for the saving player (lines 795-798); the id chosen among
\* them in lines 800-802 is never used
saving_player_candidate_ids ==
    { q \in DOMAIN player_list :
        player_list[q].leave_reason = "CONNECTION_CLOSED_BY_LOCAL_GAME" }

\* a variant that reports the single candidate when there is exactly one
ReplayFromCandidates ==
    [version |-> version,
     metadata |-> [saving_player_id |->
                     IF Cardinality(saving_player_candidate_ids) = 1
                     THEN CHOOSE q \in saving_player_candidate_ids : TRUE
                     ELSE last_leaver_index],
     slots |-> slots,
     players |-> player_list,
     chat |-> chat,
     actions |-> actions]

\* the returned Replay (lines 804-831), the fields the model keeps
Replay ==
    [version |-> version,
     metadata |-> [saving_player_id |-> last_leaver_index],
     slots |-> slots,
     players |-> player_list,
     chat |-> chat,
     actions |-> actions]

\* the ids the record loop handles (lines 511-777); any other id ends it
HandledRecords ==
    {23, 30, 31, 32} \cup { e[1] : e \in SkippedRecords }

\* record 0x00 (lines 774-777): the loop ends and the report is returned
RecordEnd ==
    /\ pc = "records"
    /\ next_record_id = 0
    /\ report' = Replay
    /\ pc' = "done"
    /\ UNCHANGED <<buildVars, containerVars, data, pos, player_list, slots,
                   count_slotrecords, recordVars>>

\* any other record id (lines 778-781): the same
RecordUnknown ==
    /\ pc = "records"
    /\ next_record_id \notin HandledRecords \cup {0}
    /\ report' = Replay
    /\ pc' = "done"
    /\ UNCHANGED <<buildVars, containerVars, data, pos, player_list, slots,
                   count_slotrecords, recordVars>>

(***************************************************************************)
(* Inputs of the record loop: an inflated stream made of a well-formed     *)
(* prefix (PlayerRecord .. GameStartRecord) followed by records.           *)
(***************************************************************************)
MaxRecords == 3

\* 0x17 LeaveGame: reason (u32), player id, result (u32), 4 unknown bytes
EncLeaveGame(reason, pid, result) ==
    <<23>> \o reason \o <<pid>> \o result \o <<0, 0, 0, 0>>

\* one actor's action block: actor id, length (u16), the opcodes
EncActionBlock(actor, ops) ==
    <<actor>> \o LE16(Len(ops)) \o ops

\* 0x1E / 0x1F TimeSlot: length of what follows (u16), increment (u16), blocks
EncTimeSlot(id, increment, blocks) ==
    <<id>> \o LE16(Len(blocks) + 2) \o LE16(increment) \o blocks

\* 0x20 ChatMessage: sender, 2 bytes, flag, recipient (u32), text, 0x00
EncChatMessage(sender, flag, recipient, text) ==
    <<32, sender, 0, 0, flag>> \o recipient \o text \o <<0>>

\* action 0x60: 8 bytes, text, 0x00
EncChatCommand(text) ==
    <<96, 0, 0, 0, 0, 0, 0, 0, 0>> \o text \o <<0>>

RecordTemplates ==
    { EncLeaveGame(<<12, 0, 0, 0>>, 1, <<0, 239, 205, 171>>),
      EncLeaveGame(<<1, 0, 0, 0>>, 2, <<7, 1, 0, 0>>),
      EncLeaveGame(<<5, 0, 0, 0>>, 3, <<255, 255, 255, 255>>),
      EncTimeSlot(31, 100, EncActionBlock(1, <<1>>) \o EncActionBlock(2, <<2>>)),
      EncTimeSlot(30, 499, EncActionBlock(2, EncChatCommand(<<97>>))),
      EncTimeSlot(31, 500, EncActionBlock(3, <<2>> \o EncChatCommand(<<97>>))),
      EncTimeSlot(31, 250, <<>>),
      EncChatMessage(1, 16, <<2, 0, 0, 0>>, <<97>>),
      EncChatMessage(3, 32, <<0, 0, 0, 0>>, <<98>>),
      <<26, 0, 0, 0, 0>> }

\* how the stream ends: the 0x00 record, an unknown record id, or nothing
StreamEnds ==
    { <<0>>, <<153>>, <<>> }

\* PlayerRecord (host, id 1, "A"), GameName "G", the encoded settings (13
\* zero bytes, map "M", creator "C"), PlayerCount, GameType, LanguageID, a
\* PlayerList entry (id 2, "B"), GameStartRecord with no slot records.
StreamPrefix ==
    <<0, 1, 0, 0, 0, 0, 65, 0, 0>>
    \o <<71, 0, 0>>
    \o <<1, 1, 1, 1, 1, 1, 1, 1, 129, 1, 1, 1, 1, 1, 1, 77, 5, 1, 67, 1, 0>>
    \o <<2, 0, 0, 0>> \o <<1, 0, 0, 0>> \o <<0, 0, 0, 0>>
    \o <<22, 2, 66, 0, 0>>
    \o <<25, 0, 0, 0>> \o <<0, 0, 0, 0, 0, 0>>

\* the player list after lines 397-420 on StreamPrefix
PrefixPlayers ==
    [q \in {1, 2} |->
        [battle_tag |-> IF q = 1 THEN <<65>> ELSE <<66>>,
         leave_reason |-> "UNKNOWN",
         result_byte |-> 0,
         left_at |-> 0]]

RecordStreams ==
    { StreamPrefix \o Concat(rs) \o e :
        rs \in UNION { [1..n -> RecordTemplates] : n \in 0..MaxRecords },
        e \in StreamEnds }

\* the container layer has finished and plays no part in the record loop
ContainerIdle ==
    /\ bytes = <<>>
    /\ reader_pos = 0
    /\ version = 1
    /\ num_data_blocks = <<0, 0>>
    /\ k = 0
    /\ i = <<0, 0>>
    /\ inflated = <<>>

\* the state when line 497 is reached
Init ==
    /\ overflow_checks \in BOOLEAN
    /\ pointer_width = 32
    /\ eof_seeks_end = TRUE
    /\ log_enabled = FALSE
    /\ ContainerIdle
    /\ data \in RecordStreams
    /\ pos = Len(StreamPrefix)
    /\ player_list = PrefixPlayers
    /\ slots = <<>>
    /\ count_slotrecords = 0
    /\ next_record_id = 25
    /\ chat = <<>>
    /\ actions = <<>>
    /\ current_timestamp = 0
    /\ records = <<>>
    /\ action_records = <<>>
    /\ last_leaver_index = 0
    /\ leave_log = <<>>
    /\ walk_log = <<>>
    /\ report = <<>>
    /\ pc = "replay_data"

Next ==
    \/ BeginReplayData
    \/ RecordLeaveGame
    \/ RecordSkip
    \/ RecordTimeSlot
    \/ RecordChatMessage
    \/ RecordEnd
    \/ RecordUnknown

Spec == Init /\ [][Next]_vars

(***************************************************************************)
(* Properties of the record loop                                           *)
(***************************************************************************)
Returned == pc = "done"

NonDecreasing(s) ==
    \A j \in 1..(Len(s) - 1) : s[j].timestamp <= s[j + 1].timestamp

\* the entries of chat made by action 0x60 carry no flag and no recipient
FromChatCommand(m) ==
    m.flag = None

NearDuplicates(a, b) ==
    a.message = b.message /\ abs_diff(a.timestamp, b.timestamp) < 500

\* C1: in the returned report the timestamps of consecutive entries of
\* actions, and of consecutive entries of chat, never decrease.
C1_TimestampsNonDecreasing ==
    Returned => NonDecreasing(report.actions) /\ NonDecreasing(report.chat)

\* a report whose actions and whose chat each span two different timestamps
C1_Witness ==
    /\ Returned
    /\ Len(report.actions) >= 2
    /\ report.actions[1].timestamp < Last(report.actions).timestamp
    /\ Len(report.chat) >= 2
    /\ report.chat[1].timestamp < Last(report.chat).timestamp

\* C2 as stated: chat never holds two entries with the same text less than
\* 500 ms apart unless both were made by 0x20 records.
C2_NoNearDuplicates ==
    Returned =>
        \A a, b \in 1..Len(report.chat) :
            a < b /\ NearDuplicates(report.chat[a], report.chat[b])
                => ~FromChatCommand(report.chat[a]) /\ ~FromChatCommand(report.chat[b])

\* C2 amended: of two entries with the same text less than 500 ms apart, the
\* later one in the list was made by a 0x20 record; a 0x60 command is never
\* appended after such an entry, a 0x20 message always is.
C2_NoShadowedCommand ==
    Returned =>
        \A a, b \in 1..Len(report.chat) :
            a < b /\ NearDuplicates(report.chat[a], report.chat[b])
                => ~FromChatCommand(report.chat[b])

\* a 0x60 command was suppressed, and a 0x20 message follows a 0x60 entry
\* with the same text within 500 ms
C2_Witness ==
    /\ Returned
    /\ 96 \in DOMAIN action_records
    /\ action_records[96] >
          Cardinality({ j \in 1..Len(report.chat) : FromChatCommand(report.chat[j]) })
    /\ \E a, b \in 1..Len(report.chat) :
          /\ a < b
          /\ NearDuplicates(report.chat[a], report.chat[b])
          /\ FromChatCommand(report.chat[a])
          /\ ~FromChatCommand(report.chat[b])

\* C3 as stated: every player_id of actions and every sender_player_id of
\* chat in the returned report is a key of players.
C3_IdsAreKeysOfPlayers ==
    Returned =>
        /\ \A j \in 1..Len(report.actions) :
              report.actions[j].player_id \in DOMAIN report.players
        /\ \A j \in 1..Len(report.chat) :
              report.chat[j].sender_player_id \in DOMAIN report.players

\* C4 as stated: when exactly one player ends with leave_reason
\* CONNECTION_CLOSED_BY_LOCAL_GAME, saving_player_id is that player's id.
C4_SingleCandidateIsSavingPlayer ==
    Returned =>
        \A q \in DOMAIN report.players :
            { r \in DOMAIN report.players :
                report.players[r].leave_reason = "CONNECTION_CLOSED_BY_LOCAL_GAME" } = {q}
                => report.metadata.saving_player_id = q

\* C5: saving_player_id of the returned report is the player_id of the last
\* 0x17 record handled, 0 when there was none, and a step that handles
\* another record kind leaves last_leaver_index as it was.
C5_SavingPlayerIsLastLeaver ==
    /\ [](Returned => report.metadata.saving_player_id =
                        IF leave_log = <<>> THEN 0 ELSE Last(leave_log))
    /\ [][pc = "records" /\ next_record_id # 23
             => last_leaver_index' = last_leaver_index]_vars

\* two 0x17 records were handled, the last one for an id that is not a key
\* of players, while another player is the only candidate
C5_Witness ==
    /\ Returned
    /\ Len(leave_log) >= 2
    /\ Last(leave_log) \notin DOMAIN report.players
    /\ saving_player_candidate_ids # {}
    /\ report.metadata.saving_player_id = Last(leave_log)

(***************************************************************************)
(* The GameStartRecord and its slot table (replay.rs 434-495)              *)
(***************************************************************************)
\* the variants of SlotColor (replay.rs 18-45) with discriminants 1..25
SlotColorNames ==
    << "RED", "BLUE", "TEAL", "PURPLE", "YELLOW", "ORANGE", "GREEN", "PINK",
       "GRAY", "LIGHTBLUE", "DARKGREEN", "BROWN", "MAROON", "NAVY",
       "TURQUOISE", "VIOLET", "WHEAT", "PEACH", "MINT", "LAVENDER", "COAL",
       "SNOW", "EMERALD", "PEANUT", "OBSERVER" >>

\* SlotColor::from_u8(v).or(UNKNOWN); UNKNOWN = 127
SlotColor_from_u8(v) ==
    IF v >= 1 /\ v <= Len(SlotColorNames) THEN SlotColorNames[v] ELSE "UNKNOWN"

\* SlotRace::from_u8(r).or(UNKNOWN) (replay.rs 47-56); the discriminants of
\* RANDOM and FIXED are written 20 and 40
SlotRace_from_u8(r) ==
    IF r = 1 THEN "HUMAN"
    ELSE IF r = 2 THEN "ORC"
    ELSE IF r = 4 THEN "NIGHTELF"
    ELSE IF r = 8 THEN "UNDEAD"
    ELSE IF r = 20 THEN "RANDOM"
    ELSE IF r = 40 THEN "FIXED"
    ELSE "UNKNOWN"

\* ComputerAIStrength::from_u8(v).or(UNKNOWN) (replay.rs 58-64)
ComputerAIStrength_from_u8(v) ==
    IF v = 0 THEN "EASY"
    ELSE IF v = 1 THEN "NORMAL"
    ELSE IF v = 2 THEN "INSANE"
    ELSE "UNKNOWN"

\* SlotStatus::from_u8(v).or(UNKNOWN) (replay.rs 66-72)
SlotStatus_from_u8(v) ==
    IF v = 0 THEN "EMPTY"
    ELSE IF v = 1 THEN "CLOSED"
    ELSE IF v = 2 THEN "OCCUPIED"
    ELSE "UNKNOWN"

\* color_byte + 1 in u8 (line 458): 0xFF + 1 panics with overflow checks and
\* is 0 without
ColorLookupPanics(color_byte) ==
    color_byte = 255 /\ overflow_checks

SlotColorOf(color_byte) ==
    SlotColor_from_u8((color_byte + 1) % 256)

\* a variant that takes any record id for the GameStartRecord
GameStartRecordAnyId ==
    /\ pc = "game_start"
    /\ IF ~CanRead(data, pos, 3)
       THEN /\ pc' = "panic"
            /\ UNCHANGED <<pos, count_slotrecords, slots>>
       ELSE /\ count_slotrecords' = ByteAt(data, pos + 2)
            /\ slots' = <<>>
            /\ pos' = pos + 3
            /\ pc' = "slots"
    /\ UNCHANGED <<buildVars, containerVars, data, player_list, recordVars, report>>

\* lines 435-445: the record id after the PlayerList must be 0x19
GameStartRecord ==
    /\ pc = "game_start"
    /\ IF next_record_id # 25 \/ ~CanRead(data, pos, 3)
       THEN /\ pc' = "panic"
            /\ UNCHANGED <<pos, count_slotrecords, slots>>
       ELSE /\ count_slotrecords' = ByteAt(data, pos + 2)
            /\ slots' = <<>>
            /\ pos' = pos + 3
            /\ pc' = "slots"
    /\ UNCHANGED <<buildVars, containerVars, data, player_list, recordVars, report>>

\* a variant whose loop runs while i <= count_slotrecords
SlotRecordOneMore ==
    /\ pc = "slots"
    /\ Len(slots) <= count_slotrecords
    /\ IF ~CanRead(data, pos, 9) \/ ColorLookupPanics(ByteAt(data, pos + 5))
       THEN /\ pc' = "panic"
            /\ UNCHANGED <<pos, slots>>
       ELSE /\ slots' = Append(slots,
                  [player_id |-> ByteAt(data, pos),
                   map_download_percent |-> ByteAt(data, pos + 1),
                   status |-> SlotStatus_from_u8(ByteAt(data, pos + 2)),
                   is_computer |-> (ByteAt(data, pos + 3) = 1),
                   team_index |-> ByteAt(data, pos + 4),
                   color |-> SlotColorOf(ByteAt(data, pos + 5)),
                   race |-> SlotRace_from_u8(ByteAt(data, pos + 6)),
                   ai_strength |-> ComputerAIStrength_from_u8(ByteAt(data, pos + 7)),
                   handicap_percent |-> ByteAt(data, pos + 8)])
            /\ pos' = pos + 9
            /\ pc' = "slots"
    /\ UNCHANGED <<buildVars, containerVars, data, player_list, count_slotrecords,
                   recordVars, report>>

\* one iteration of the slot loop (lines 447-488); its counter i is Len(slots)
SlotRecord ==
    /\ pc = "slots"
    /\ Len(slots) < count_slotrecords
    /\ IF ~CanRead(data, pos, 9) \/ ColorLookupPanics(ByteAt(data, pos + 5))
       THEN /\ pc' = "panic"
            /\ UNCHANGED <<pos, slots>>
       ELSE /\ slots' = Append(slots,
                  [player_id |-> ByteAt(data, pos),
                   map_download_percent |-> ByteAt(data, pos + 1),
                   status |-> SlotStatus_from_u8(ByteAt(data, pos + 2)),
                   is_computer |-> (ByteAt(data, pos + 3) = 1),
                   team_index |-> ByteAt(data, pos + 4),
                   color |-> SlotColorOf(ByteAt(data, pos + 5)),
                   race |-> SlotRace_from_u8(ByteAt(data, pos + 6)),
                   ai_strength |-> ComputerAIStrength_from_u8(ByteAt(data, pos + 7)),
                   handicap_percent |-> ByteAt(data, pos + 8)])
            /\ pos' = pos + 9
            /\ pc' = "slots"
    /\ UNCHANGED <<buildVars, containerVars, data, player_list, count_slotrecords,
                   recordVars, report>>

\* lines 490-495: random seed, selection mode, start spot count
GameStartEnd ==
    /\ pc = "slots"
    /\ Len(slots) >= count_slotrecords
    /\ IF CanRead(data, pos, 6)
       THEN pos' = pos + 6 /\ pc' = "replay_data"
       ELSE pos' = pos /\ pc' = "panic"
    /\ UNCHANGED <<buildVars, containerVars, data, player_list, slots,
                   count_slotrecords, recordVars, report>>

(***************************************************************************)
(* Inputs of the slot table                                                *)
(***************************************************************************)
MaxSlots == 2

EncSlot(pid, status, color, race, ai) ==
    <<pid, 100, status, 0, 0, color, race, ai, 100>>

\* every color byte and every race byte occurs in the first slot record
FirstSlots ==
    { EncSlot(1, 2, c, 1, 0) : c \in Byte } \cup { EncSlot(1, 2, 0, r, 1) : r \in Byte }

OtherSlots ==
    { EncSlot(2, 0, 24, 32, 2), EncSlot(0, 9, 99, 64, 3) }

SlotTables ==
    { <<>> } \cup
    { <<f>> \o rest :
        f \in FirstSlots,
        rest \in UNION { [1..n -> OtherSlots] : n \in 0..(MaxSlots - 1) } }

\* the stream up to the record id that follows the PlayerList
PlayerListPrefix ==
    SubSeq(StreamPrefix, 1, Len(StreamPrefix) - 10)

\* the position of the first slot record: after the id, data_length and count
SlotTableStart ==
    Len(PlayerListPrefix) + 4

\* the count byte is the number of slot records present, or one more
SlotStreams ==
    { PlayerListPrefix \o <<id, 0, 0, Len(t) + extra>> \o Concat(t)
        \o <<0, 0, 0, 0, 0, 0>> \o <<0>> :
        id \in {25, 26}, t \in SlotTables, extra \in {0, 1} }

\* the state when line 434 is reached
InitSlots ==
    /\ overflow_checks \in BOOLEAN
    /\ pointer_width = 32
    /\ eof_seeks_end = TRUE
    /\ log_enabled = FALSE
    /\ ContainerIdle
    /\ data \in SlotStreams
    /\ pos = Len(PlayerListPrefix) + 1
    /\ next_record_id = ByteAt(data, Len(PlayerListPrefix))
    /\ player_list = PrefixPlayers
    /\ slots = <<>>
    /\ count_slotrecords = 0
    /\ chat = <<>>
    /\ actions = <<>>
    /\ current_timestamp = 0
    /\ records = <<>>
    /\ action_records = <<>>
    /\ last_leaver_index = 0
    /\ leave_log = <<>>
    /\ walk_log = <<>>
    /\ report = <<>>
    /\ pc = "game_start"

NextSlots ==
    \/ GameStartRecord
    \/ SlotRecord
    \/ GameStartEnd

SpecSlots == InitSlots /\ [][NextSlots]_vars

\* the race byte and the color byte of the j-th slot record of the stream
RaceByte(j) ==
    ByteAt(data, SlotTableStart + 9 * (j - 1) + 6)

ColorByte(j) ==
    ByteAt(data, SlotTableStart + 9 * (j - 1) + 5)

\* the race C6 gives for a race byte
C6_Race(r) ==
    IF r = 1 THEN "HUMAN"
    ELSE IF r = 2 THEN "ORC"
    ELSE IF r = 4 THEN "NIGHTELF"
    ELSE IF r = 8 THEN "UNDEAD"
    ELSE IF r = 32 THEN "RANDOM"
    ELSE IF r = 64 THEN "FIXED"
    ELSE "UNKNOWN"

\* C6 as stated: the race of every slot is HUMAN, ORC, NIGHTELF, UNDEAD,
\* RANDOM, FIXED for the race bytes 0x01, 0x02, 0x04, 0x08, 0x20, 0x40 and
\* UNKNOWN for every other byte.
C6_RaceOfEveryByte ==
    \A j \in 1..Len(slots) : slots[j].race = C6_Race(RaceByte(j))

\* the color C7 gives for a color byte
C7_Color(c) ==
    IF c + 1 >= 1 /\ c + 1 <= 25 THEN SlotColorNames[c + 1] ELSE "UNKNOWN"

\* C7 as stated: a slot record that is wholly in the stream is decoded
\* without a failure, whatever its color byte, and its color is the named
\* color c + 1 for c + 1 in 1..25 and UNKNOWN otherwise.
C7_ColorOfEveryByte ==
    [][pc = "slots" /\ Len(slots) < count_slotrecords /\ CanRead(data, pos, 9)
          => /\ pc' # "panic"
             /\ Len(slots') = Len(slots) + 1
             /\ Last(slots').color = C7_Color(ByteAt(data, pos + 5))]_vars

(***************************************************************************)
(* flate2's Decompress::decompress_vec(input, out, FlushDecompress::Sync)  *)
(* with a zlib header (replay.rs 299, 311), for streams made of stored     *)
(* (uncompressed) deflate blocks, which is what the inputs of this model   *)
(* hold; a Huffman-coded block is reported like a reserved block type.     *)
(* The result is Err (ok = FALSE) for corrupt input and the bytes inflated *)
(* so far when the input merely ends early.                                *)
(***************************************************************************)
\* CMF/FLG: method 8, window <= 32K, check bits, no preset dictionary
ZlibHeaderOk(bs) ==
    /\ bs[1] % 16 = 8
    /\ bs[1] \div 16 <= 7
    /\ (bs[1] * 256 + bs[2]) % 31 = 0
    /\ (bs[2] \div 32) % 2 = 0

RECURSIVE SumBytes(_)
SumBytes(s) ==
    IF s = <<>> THEN 0 ELSE s[1] + SumBytes(Tail(s))

RECURSIVE SumPrefixes(_, _)
SumPrefixes(s, a) ==
    IF s = <<>> THEN 0 ELSE (a + s[1]) + SumPrefixes(Tail(s), a + s[1])

\* the Adler-32 trailer of a zlib stream, big-endian (outputs are short, so
\* the sums stay below 65521 * 65536)
Adler32(s) ==
    LET a == (1 + SumBytes(s)) % 65521
        b == SumPrefixes(s, 1) % 65521
    IN  <<b \div 256, b % 256, a \div 256, a % 256>>

RECURSIVE InflateBlocks(_, _, _)
InflateBlocks(bs, j, out) ==
    IF j > Len(bs) THEN [ok |-> TRUE, out |-> out]
    ELSE IF (bs[j] \div 2) % 4 # 0 THEN [ok |-> FALSE, out |-> out]
    ELSE IF j + 4 > Len(bs) THEN [ok |-> TRUE, out |-> out]
    ELSE
      LET len == bs[j + 1] + 256 * bs[j + 2]
          nlen == bs[j + 3] + 256 * bs[j + 4]
          have == IF Len(bs) - (j + 4) < len THEN Len(bs) - (j + 4) ELSE len
          out2 == out \o SubSeq(bs, j + 5, j + 4 + have)
          after == j + 5 + len
      IN  IF len + nlen # 65535 THEN [ok |-> FALSE, out |-> out]
          ELSE IF have < len THEN [ok |-> TRUE, out |-> out2]
          ELSE IF bs[j] % 2 = 0 THEN InflateBlocks(bs, after, out2)
          ELSE IF after + 3 > Len(bs) THEN [ok |-> TRUE, out |-> out2]
          ELSE [ok |-> SubSeq(bs, after, after + 3) = Adler32(out2), out |-> out2]

Inflate(bs) ==
    IF Len(bs) < 2 THEN [ok |-> TRUE, out |-> <<>>]
    ELSE IF ~ZlibHeaderOk(bs) THEN [ok |-> FALSE, out |-> <<>>]
    ELSE InflateBlocks(bs, 3, <<>>)

(***************************************************************************)
(* The container layer (replay.rs 266-334)                                 *)
(***************************************************************************)
\* a variant that gives an unknown version the version-0 layout
total_header_length_known(v) ==
    IF v = 1 THEN 68 ELSE 64

\* lines 272-276
total_header_length(v) ==
    IF v = 0 THEN 64 ELSE 68

\* Vec::with_capacity / vec![0; n] of a u32 n as usize (lines 303, 308): a
\* capacity above isize::MAX panics, which a u32 reaches on a 32-bit target
CapacityOverflows(n) ==
    pointer_width = 32 /\ ~U32Fits(n)

\* the position a failed read_exact leaves the reader at
AfterShortRead(p) ==
    IF eof_seeks_end THEN Len(bytes) ELSE p

\* a variant that puts the bytes of a block in front of the stream
PrependOut(d, out) ==
    out \o d

\* data.append(&mut out) (line 315)
AppendOut(d, out) ==
    d \o out

\* lines 266-286: the fixed header and the sub-header
ReadHeader ==
    /\ pc = "header"
    /\ IF CanRead(bytes, 0, 48)
          /\ CanRead(bytes, 48, total_header_length(ByteAt(bytes, 36)) - 48)
       THEN /\ version' = ByteAt(bytes, 36)
            /\ reader_pos' = total_header_length(ByteAt(bytes, 36))
            /\ i' = U32Of(total_header_length(ByteAt(bytes, 36)))
            /\ k' = 0
            /\ num_data_blocks' = parse_dword(BytesAt(bytes, 44, 4))
            /\ data' = <<>>
            /\ pc' = "blocks"
       ELSE /\ pc' = "panic"
            /\ UNCHANGED <<version, reader_pos, i, k, num_data_blocks, data>>
    /\ UNCHANGED <<buildVars, bytes, inflated, pos, player_list, slots,
                   count_slotrecords, recordVars, report>>

\* the 12-byte block header at the reader's position can be read
BlockHeaderRead ==
    CanRead(bytes, reader_pos, 12)

block_data_length ==
    parse_dword(BytesAt(bytes, reader_pos, 4))

block_data_length_inflated ==
    parse_dword(BytesAt(bytes, reader_pos + 4, 4))

\* the payload of the block can be read (line 304)
BlockDataRead ==
    /\ U32Fits(block_data_length)
    /\ CanRead(bytes, reader_pos + 12, U32Int(block_data_length))

\* the bytes decompress_vec leaves in `out`, whose capacity is the declared
\* inflated length
BlockOut ==
    LET r == Inflate(BytesAt(bytes, reader_pos + 12, U32Int(block_data_length)))
    IN  IF U32Fits(block_data_length_inflated)
        THEN Take(r.out, U32Int(block_data_length_inflated))
        ELSE r.out

BlockInflateFails ==
    ~Inflate(BytesAt(bytes, reader_pos + 12, U32Int(block_data_length))).ok

\* i += block_data_length + 12 (line 321), two u32 additions
OffsetOverflows ==
    \/ U32Add(block_data_length, <<12, 0>>).overflow
    \/ U32Add(i, U32Add(block_data_length, <<12, 0>>).sum).overflow

\* one iteration of the container loop (lines 288-326)
BlockIter ==
    /\ pc = "blocks"
    /\ U32Less(U32Of(k), num_data_blocks)
    /\ IF ~BlockHeaderRead
       THEN \* line 324: break
            /\ reader_pos' = AfterShortRead(reader_pos)
            /\ pc' = "inflated"
            /\ UNCHANGED <<data, inflated, i, k>>
       ELSE IF CapacityOverflows(block_data_length)
       THEN /\ pc' = "panic"
            /\ UNCHANGED <<reader_pos, data, inflated, i, k>>
       ELSE IF BlockDataRead
       THEN IF \/ CapacityOverflows(block_data_length_inflated)
               \/ BlockInflateFails
               \/ (log_enabled /\ Len(BlockOut) < 8)
               \/ (overflow_checks /\ OffsetOverflows)
            THEN /\ pc' = "panic"
                 /\ UNCHANGED <<reader_pos, data, inflated, i, k>>
            ELSE /\ data' = AppendOut(data, BlockOut)
                 /\ inflated' = Append(inflated, BlockOut)
                 /\ reader_pos' = reader_pos + 12 + U32Int(block_data_length)
                 /\ i' = U32Add(i, U32Add(block_data_length, <<12, 0>>).sum).sum
                 /\ k' = k + 1
                 /\ pc' = "blocks"
       ELSE \* lines 317-319: the payload is short, the block is skipped
            IF overflow_checks /\ OffsetOverflows
            THEN /\ pc' = "panic"
                 /\ UNCHANGED <<reader_pos, data, inflated, i, k>>
            ELSE /\ reader_pos' = AfterShortRead(reader_pos + 12)
                 /\ i' = U32Add(i, U32Add(block_data_length, <<12, 0>>).sum).sum
                 /\ k' = k + 1
                 /\ pc' = "blocks"
                 /\ UNCHANGED <<data, inflated>>
    /\ UNCHANGED <<buildVars, bytes, version, num_data_blocks, pos, player_list,
                   slots, count_slotrecords, recordVars, report>>

\* the loop condition fails (line 288): all num_data_blocks blocks were iterated
BlocksDone ==
    /\ pc = "blocks"
    /\ ~U32Less(U32Of(k), num_data_blocks)
    /\ pc' = "inflated"
    /\ UNCHANGED <<buildVars, containerVars, data, pos, player_list, slots,
                   count_slotrecords, recordVars, report>>

\* lines 329-334: the cursor over the inflated stream; the info! of line 330
\* unwraps data.get(0..128)
StartDecode ==
    /\ pc = "inflated"
    /\ IF log_enabled /\ Len(data) < 128
       THEN pc' = "panic" /\ pos' = pos
       ELSE pc' = "player_record" /\ pos' = 0
    /\ UNCHANGED <<buildVars, containerVars, data, player_list, slots,
                   count_slotrecords, recordVars, report>>

(***************************************************************************)
(* Inputs of the container layer                                           *)
(***************************************************************************)
MaxBlocks == 2

\* the 48-byte header: version at 0x24, num_data_blocks at 0x2C, and the
\* sub-header the version asks for
EncFileHeader(v, n) ==
    [j \in 1..48 |-> IF j = 37 THEN v ELSE IF j = 45 THEN n ELSE 0]
    \o Repeat(0, total_header_length(v) - 48)

\* a zlib stream holding `content` in one stored block, not finished
ZlibStored(content) ==
    <<120, 1, 0>> \o LE16(Len(content)) \o LE16(65535 - Len(content)) \o content

\* a block: compressed length, inflated length, two CRCs, the payload
EncDataBlock(clen, ilen, payload) ==
    LE16(clen) \o <<0, 0>> \o LE16(ilen) \o <<0, 0>> \o <<0, 0, 0, 0>> \o payload

GoodBlock(content) ==
    EncDataBlock(Len(ZlibStored(content)), Len(content), ZlibStored(content))

\* whole blocks: four that inflate (8 bytes, 3 bytes, 120 bytes, 8 bytes of
\* which the declared inflated length admits 4) and one that is not zlib
WholeBlocks ==
    { GoodBlock(<<0, 1, 0, 0, 0, 0, 65, 0>>),
      GoodBlock(<<7, 8, 9>>),
      GoodBlock([j \in 1..120 |-> j]),
      EncDataBlock(Len(ZlibStored(<<1, 2, 3, 4, 5, 6, 7, 8>>)), 4,
                   ZlibStored(<<1, 2, 3, 4, 5, 6, 7, 8>>)),
      EncDataBlock(4, 8, <<0, 0, 1, 2>>) }

\* what follows the whole blocks: nothing, 5 bytes of a block header, a block
\* whose payload is 3 bytes short, a header declaring 2^32 - 1 payload bytes
FileEnds ==
    { <<>>,
      <<9, 0, 0, 0, 9>>,
      EncDataBlock(Len(ZlibStored(<<7, 8, 9>>)) + 3, 3, ZlibStored(<<7, 8, 9>>)),
      <<255, 255, 255, 255, 8, 0, 0, 0, 0, 0, 0, 0>> }

Files ==
    { Take(EncFileHeader(1, 1), 40) } \cup
    { EncFileHeader(v, n) \o Concat(bs) \o e :
        v \in {0, 1, 2},
        n \in 0..(MaxBlocks + 1),
        bs \in UNION { [1..m -> WholeBlocks] : m \in 0..MaxBlocks },
        e \in FileEnds }

\* the state when from_bytes is entered
InitContainer ==
    /\ overflow_checks \in BOOLEAN
    /\ pointer_width \in {32, 64}
    /\ eof_seeks_end \in BOOLEAN
    /\ log_enabled \in BOOLEAN
    /\ bytes \in Files
    /\ reader_pos = 0
    /\ version = -1
    /\ num_data_blocks = <<0, 0>>
    /\ k = 0
    /\ i = <<0, 0>>
    /\ inflated = <<>>
    /\ data = <<>>
    /\ pos = 0
    /\ next_record_id = 0
    /\ player_list = <<>>
    /\ slots = <<>>
    /\ count_slotrecords = 0
    /\ chat = <<>>
    /\ actions = <<>>
    /\ current_timestamp = 0
    /\ records = <<>>
    /\ action_records = <<>>
    /\ last_leaver_index = 0
    /\ leave_log = <<>>
    /\ walk_log = <<>>
    /\ report = <<>>
    /\ pc = "header"

NextContainer ==
    \/ ReadHeader
    \/ BlockIter
    \/ BlocksDone
    \/ StartDecode

SpecContainer == InitContainer /\ [][NextContainer]_vars

(***************************************************************************)
(* Properties of the container layer                                       *)
(***************************************************************************)
\* the loop is about to run an iteration
Iterating ==
    pc = "blocks" /\ U32Less(U32Of(k), num_data_blocks)

\* C8 as stated: when inflating a block fails the decode does not abort,
\* the block adds nothing to the inflated stream and the loop goes on.
C8_InflateFailureSkipsBlock ==
    [][Iterating /\ BlockHeaderRead /\ BlockDataRead /\ BlockInflateFails
          => pc' = "blocks" /\ k' = k + 1 /\ data' = data]_vars

C10_ShortPayloadSkipsBlock ==
    [][Iterating /\ BlockHeaderRead /\ ~BlockDataRead
          => pc' # "panic" /\ data' = data]_vars

(***************************************************************************)
(* The cursor helpers as functions of the stream d and the position p      *)
(* (replay.rs 199-227).  ok = FALSE is the panic of the unwrap.            *)
(***************************************************************************)
CursorResult(ok, p, v) ==
    [ok |-> ok, pos |-> p, value |-> v]

\* lines 219-223
cursor_read_byte(d, p) ==
    IF CanRead(d, p, 1) THEN CursorResult(TRUE, p + 1, ByteAt(d, p))
    ELSE CursorResult(FALSE, p, 0)

\* lines 205-209
cursor_read_word(d, p) ==
    IF CanRead(d, p, 2) THEN CursorResult(TRUE, p + 2, parse_word(BytesAt(d, p, 2)))
    ELSE CursorResult(FALSE, p, 0)

\* lines 199-203
cursor_read_dword(d, p) ==
    IF CanRead(d, p, 4) THEN CursorResult(TRUE, p + 4, parse_dword(BytesAt(d, p, 4)))
    ELSE CursorResult(FALSE, p, <<0, 0>>)

\* lines 225-227: seek(SeekFrom::Current(n)) of a Cursor fails only when the
\* new position is negative or overflows; every n the parser passes is a
\* widened unsigned value, so the seek succeeds wherever the input ends
cursor_skip_bytes(d, p, n) ==
    CursorResult(TRUE, p + n, 0)

\* lines 211-217
cursor_read_nullterminated_string(d, p) ==
    IF CStringOk(d, p) THEN CursorResult(TRUE, CStringEnd(d, p), CStringValue(d, p))
    ELSE CursorResult(FALSE, p, <<>>)

(***************************************************************************)
(* The cursor helpers applied in any order to a short stream               *)
(***************************************************************************)
MaxStream == 4

MaxSkip == 4

\* a cursor step: the position moves, or the unwrap panics
CursorStep(r) ==
    /\ pc = "cursor"
    /\ IF r.ok THEN pos' = r.pos /\ pc' = "cursor"
       ELSE pos' = pos /\ pc' = "panic"
    /\ UNCHANGED <<buildVars, containerVars, data, player_list, slots,
                   count_slotrecords, recordVars, report>>

ReadByte ==
    CursorStep(cursor_read_byte(data, pos))

ReadWord ==
    CursorStep(cursor_read_word(data, pos))

ReadDword ==
    CursorStep(cursor_read_dword(data, pos))

SkipBytes ==
    \E n \in 0..MaxSkip :
        /\ pos + n <= MaxStream + MaxSkip
        /\ CursorStep(cursor_skip_bytes(data, pos, n))

ReadCString ==
    CursorStep(cursor_read_nullterminated_string(data, pos))

\* streams over a 0x00, a letter and a byte that is not UTF-8 on its own
CursorStreams ==
    UNION { [1..n -> {0, 65, 200}] : n \in 0..MaxStream }

InitCursor ==
    /\ overflow_checks \in BOOLEAN
    /\ pointer_width = 32
    /\ eof_seeks_end = TRUE
    /\ log_enabled = FALSE
    /\ ContainerIdle
    /\ data \in CursorStreams
    /\ pos = 0
    /\ next_record_id = 0
    /\ player_list = <<>>
    /\ slots = <<>>
    /\ count_slotrecords = 0
    /\ chat = <<>>
    /\ actions = <<>>
    /\ current_timestamp = 0
    /\ records = <<>>
    /\ action_records = <<>>
    /\ last_leaver_index = 0
    /\ leave_log = <<>>
    /\ walk_log = <<>>
    /\ report = <<>>
    /\ pc = "cursor"

NextCursor ==
    \/ ReadByte
    \/ ReadWord
    \/ ReadDword
    \/ SkipBytes
    \/ ReadCString

SpecCursor == InitCursor /\ [][NextCursor]_vars

(***************************************************************************)
(* Properties of the cursor helpers                                        *)
(***************************************************************************)
\* the bytes from the position on hold no 0x00
NoNulRemains(d, p) ==
    \A j \in (p + 1)..Len(d) : d[j] # 0

\* C11 as stated: every cursor operation fails when fewer bytes remain
\* than it needs; skip(n) with fewer than n bytes remaining fails, and
\* read_cstring on a remainder without a 0x00 fails.
C11_ShortReadFails ==
    pc = "cursor" =>
        /\ Remaining(data, pos) < 1 => ~cursor_read_byte(data, pos).ok
        /\ Remaining(data, pos) < 2 => ~cursor_read_word(data, pos).ok
        /\ Remaining(data, pos) < 4 => ~cursor_read_dword(data, pos).ok
        /\ \A n \in 0..MaxSkip :
              Remaining(data, pos) < n => ~cursor_skip_bytes(data, pos, n).ok
        /\ NoNulRemains(data, pos) => ~cursor_read_nullterminated_string(data, pos).ok

(***************************************************************************)
(* decode_gamesettings (replay.rs 229-246).  enc[i] is read before the     *)
(* loop condition is tested, so an enc without a 0x00 is an index panic.   *)
(* i counts from 0, dec is the output so far.                              *)
(***************************************************************************)
\* a variant that numbers the bits from the byte after the mask byte
MaskBitAfterMask(mask, n) ==
    (mask \div (2 ^ (n - 1))) % 2 = 1

\* mask & (0x1 << n) != 0
MaskBit(mask, n) ==
    (mask \div (2 ^ n)) % 2 = 1

RECURSIVE decode_loop(_, _, _, _)
decode_loop(enc, j, mask, dec) ==
    IF j >= Len(enc) THEN [ok |-> FALSE, dec |-> dec]
    ELSE IF enc[j + 1] = 0 THEN [ok |-> TRUE, dec |-> dec]
    ELSE IF j % 8 = 0 THEN decode_loop(enc, j + 1, enc[j + 1], dec)
    ELSE IF ~MaskBit(mask, j % 8)
         THEN decode_loop(enc, j + 1, mask, Append(dec, enc[j + 1] - 1))
         ELSE decode_loop(enc, j + 1, mask, Append(dec, enc[j + 1]))

decode_gamesettings(enc) ==
    decode_loop(enc, 0, 0, <<>>)

\* lines 359-383 on the decoded settings: bytes 0..3 are indexed, [13..] is
\* sliced, and the map name and the creator name are read from the slice
GameSettingsOk(dec) ==
    /\ Len(dec) >= 13
    /\ LET sub == SubSeq(dec, 14, Len(dec))
           map_name == cursor_read_nullterminated_string(sub, 0)
       IN  /\ map_name.ok
           /\ cursor_read_nullterminated_string(sub, map_name.pos).ok

\* a new entry of player_list (lines 399-404, 413-418)
ReplayPlayer(name) ==
    [battle_tag |-> name, leave_reason |-> "UNKNOWN", result_byte |-> 0, left_at |-> 0]

\* a variant that forgets the other keys
InsertAlone(m, key, v) ==
    [q \in {key} |-> v]

\* HashMap::insert
Insert(m, key, v) ==
    [q \in DOMAIN m \cup {key} |-> IF q = key THEN v ELSE m[q]]

\* which loop the record id read at lines 406 / 419 leads to
AfterPlayerList(id) ==
    IF id = 0 \/ id = 22 THEN "player_list"
    ELSE IF id = 57 THEN "reforged"
    ELSE "game_start"

\* the same for the id read at line 431
AfterReforged(id) ==
    IF id = 57 THEN "reforged" ELSE "game_start"

\* a panic before the record loop
HeaderPanic ==
    /\ pc' = "panic"
    /\ UNCHANGED <<pos, player_list, next_record_id>>

(***************************************************************************)
(* Lines 337-406: PlayerRecord, GameName, the encoded settings, PlayerCount,*)
(* GameType, LanguageID, the host's entry of player_list and the first     *)
(* record id                                                               *)
(***************************************************************************)
DecodeHeader ==
    /\ pc = "player_record"
    /\ LET player_is_host == cursor_read_byte(data, pos)
           player_id == cursor_read_byte(data, player_is_host.pos)
           s1 == cursor_skip_bytes(data, player_id.pos, 4)
           player_name == cursor_read_nullterminated_string(data, s1.pos)
           additional_data_size_byte == cursor_read_byte(data, player_name.pos)
           s2 == cursor_skip_bytes(data, additional_data_size_byte.pos,
                                   additional_data_size_byte.value)
           game_name == cursor_read_nullterminated_string(data, s2.pos)
           s3 == cursor_skip_bytes(data, game_name.pos, 1)
           enc_end == ReadUntilNul(data, s3.pos)
           encoded_gamesettings_buf == SubSeq(data, s3.pos + 1, enc_end)
           game_settings_buf == decode_gamesettings(encoded_gamesettings_buf)
           num_players_slots == cursor_read_dword(data, enc_end)
           game_type == cursor_read_byte(data, num_players_slots.pos)
           is_private_custom_game == cursor_read_byte(data, game_type.pos)
           s4 == cursor_skip_bytes(data, is_private_custom_game.pos, 2)
           s5 == cursor_skip_bytes(data, s4.pos, 4)
           first_id == cursor_read_byte(data, s5.pos)
       IN  IF /\ player_is_host.ok /\ player_id.ok /\ player_name.ok
              /\ additional_data_size_byte.ok /\ game_name.ok
              /\ game_settings_buf.ok /\ GameSettingsOk(game_settings_buf.dec)
              /\ num_players_slots.ok /\ game_type.ok
              /\ is_private_custom_game.ok /\ first_id.ok
           THEN /\ player_list' = Insert(<<>>, player_id.value,
                                         ReplayPlayer(player_name.value))
                /\ next_record_id' = first_id.value
                /\ pos' = first_id.pos
                /\ pc' = AfterPlayerList(first_id.value)
           ELSE HeaderPanic
    /\ UNCHANGED <<buildVars, containerVars, data, slots, count_slotrecords,
                   chat, actions, current_timestamp, records, action_records,
                   last_leaver_index, leave_log, walk_log, report>>

\* one iteration of the PlayerList loop (lines 407-420)
PlayerListEntry ==
    /\ pc = "player_list"
    /\ LET cur_player_id == cursor_read_byte(data, pos)
           cur_player_name == cursor_read_nullterminated_string(data, cur_player_id.pos)
           additional_data_size_byte == cursor_read_byte(data, cur_player_name.pos)
           s1 == cursor_skip_bytes(data, additional_data_size_byte.pos,
                                   additional_data_size_byte.value)
           next_id == cursor_read_byte(data, s1.pos)
       IN  IF /\ cur_player_id.ok /\ cur_player_name.ok
              /\ additional_data_size_byte.ok /\ next_id.ok
           THEN /\ player_list' = Insert(player_list, cur_player_id.value,
                                         ReplayPlayer(cur_player_name.value))
                /\ next_record_id' = next_id.value
                /\ pos' = next_id.pos
                /\ pc' = AfterPlayerList(next_id.value)
           ELSE HeaderPanic
    /\ UNCHANGED <<buildVars, containerVars, data, slots, count_slotrecords,
                   chat, actions, current_timestamp, records, action_records,
                   last_leaver_index, leave_log, walk_log, report>>

\* one iteration of the Reforged metadata loop (lines 424-432).  A length of
\* 2^31 or more puts the position beyond any stream, so the read of the
\* next id fails.
ReforgedRecord ==
    /\ pc = "reforged"
    /\ LET cur_record_subtype == cursor_read_byte(data, pos)
           cur_record_data_length == cursor_read_dword(data, cur_record_subtype.pos)
           s1 == cursor_skip_bytes(data, cur_record_data_length.pos,
                                   U32Int(cur_record_data_length.value))
           next_id == cursor_read_byte(data, s1.pos)
       IN  IF /\ cur_record_subtype.ok /\ cur_record_data_length.ok
              /\ U32Fits(cur_record_data_length.value) /\ next_id.ok
           THEN /\ next_record_id' = next_id.value
                /\ pos' = next_id.pos
                /\ pc' = AfterReforged(next_id.value)
                /\ player_list' = player_list
           ELSE HeaderPanic
    /\ UNCHANGED <<buildVars, containerVars, data, slots, count_slotrecords,
                   chat, actions, current_timestamp, records, action_records,
                   last_leaver_index, leave_log, walk_log, report>>

(***************************************************************************)
(* Inputs of the whole decode of an inflated stream                        *)
(***************************************************************************)
MaxPlayers == 2

\* PlayerRecord: host flag, id, 4 bytes, name, 0x00, the additional data
EncPlayerRecord(id, name, extra) ==
    <<0, id, 0, 0, 0, 0>> \o name \o <<0, Len(extra)>> \o extra

\* the encoded form of 13 zero bytes, "M", 0x00, "C", 0x00
GoodSettings ==
    <<1, 1, 1, 1, 1, 1, 1, 1, 129, 1, 1, 1, 1, 1, 1, 77, 5, 1, 67, 1, 0>>

\* PlayerRecord, GameName "G", a 0x00, the encoded settings, PlayerCount,
\* GameType, LanguageID
EncHeader(id, name, extra, settings) ==
    EncPlayerRecord(id, name, extra) \o <<71, 0, 0>> \o settings
    \o <<2, 0, 0, 0>> \o <<1, 0, 0, 0>> \o <<0, 0, 0, 0>>

Alice ==
    <<65, 108, 105, 99, 101>>

\* the header of StreamPrefix
PlainHeader ==
    EncHeader(1, <<65>>, <<>>, GoodSettings)

\* the second has a settings field that is the single byte 0x00
Headers ==
    { PlainHeader,
      EncHeader(1, Alice, <<>>, <<0>>),
      EncHeader(4, <<65, 200>>, <<7>>, GoodSettings) }

\* PlayerList entries with their leading record id (0x16 or 0x00): id 2,
\* id 3 with a byte of additional data, and id 1 again
PlayerEntries ==
    { <<22, 2, 66, 0, 0>>, <<0, 3, 67, 0, 1, 9>>, <<22, 1, 90, 0, 0>> }

PlayerLists ==
    { Concat(es) : es \in UNION { [1..n -> PlayerEntries] : n \in 0..MaxPlayers } }

\* no Reforged record, one of two bytes, one whose length is 2^32 - 1
ReforgedLists ==
    { <<>>, <<57, 3, 2, 0, 0, 0, 9, 9>>, <<57, 1, 255, 255, 255, 255>> }

\* what follows the record id 0x19: data_length, count_slotrecords = 0,
\* random seed, selection mode, start spot count
NoSlots ==
    <<0, 0, 0>> \o <<0, 0, 0, 0, 0, 0>>

\* what may follow a record id that is not 0x19
ShortTails ==
    { <<>>, NoSlots \o <<0>>, Repeat(0, 130) }

\* record streams: ids 5 and 6 are in no PlayerRecord or PlayerList entry
DecodeRecords ==
    { <<0>>,
      <<>>,
      EncLeaveGame(<<12, 0, 0, 0>>, 5, <<1, 0, 0, 0>>)
         \o EncLeaveGame(<<1, 0, 0, 0>>, 2, <<2, 0, 0, 0>>) \o <<0>>,
      EncTimeSlot(31, 100, EncActionBlock(6, <<1>>) \o EncActionBlock(1, <<2>>))
         \o <<26, 0, 0, 0, 0>> \o <<0>>,
      EncChatMessage(5, 16, <<2, 0, 0, 0>>, <<97>>) \o <<0>>,
      EncLeaveGame(<<12, 0, 0, 0>>, 5, <<1, 0, 0, 0>>)
         \o EncTimeSlot(31, 100, EncActionBlock(6, <<1>>))
         \o EncChatMessage(5, 16, <<2, 0, 0, 0>>, <<97>>) \o <<0>>,
      EncChatMessage(2, 16, <<3, 0, 0, 0>>, <<98>>) \o <<153>>
         \o EncChatMessage(2, 16, <<3, 0, 0, 0>>, <<99>>) \o <<0>>,
      EncChatMessage(2, 16, <<3, 0, 0, 0>>, <<98>>) \o <<153>>
         \o EncLeaveGame(<<12, 0, 0, 0>>, 2, <<1, 0, 0, 0>>) \o <<0>>,
      EncChatMessage(2, 16, <<3, 0, 0, 0>>, <<98>>) \o <<153>> }

\* what follows the record id 0x19
DecodeTails ==
    { NoSlots \o r : r \in DecodeRecords }
    \cup { <<0, 0, 1>> \o EncSlot(1, 2, 0, 1, 0) \o <<0, 0, 0, 0, 0, 0>> \o <<0>>,
           <<0, 0, 2>> \o EncSlot(1, 2, 0, 1, 0) \o <<0, 0, 0, 0, 0, 0>> \o <<0>> }

DecodeStreams ==
    { h \o pl \o rf \o s :
        h \in Headers, pl \in PlayerLists, rf \in ReforgedLists,
        s \in { <<id>> \o t : id \in {24, 200}, t \in ShortTails }
              \cup { <<25>> \o t : t \in DecodeTails } }
    \cup { PlainHeader \o <<id>> \o t : id \in Byte, t \in ShortTails }

\* the state when line 334 is reached
InitDecode ==
    /\ overflow_checks \in BOOLEAN
    /\ pointer_width = 32
    /\ eof_seeks_end = TRUE
    /\ log_enabled = FALSE
    /\ ContainerIdle
    /\ data \in DecodeStreams
    /\ pos = 0
    /\ next_record_id = 0
    /\ player_list = <<>>
    /\ slots = <<>>
    /\ count_slotrecords = 0
    /\ chat = <<>>
    /\ actions = <<>>
    /\ current_timestamp = 0
    /\ records = <<>>
    /\ action_records = <<>>
    /\ last_leaver_index = 0
    /\ leave_log = <<>>
    /\ walk_log = <<>>
    /\ report = <<>>
    /\ pc = "player_record"

NextDecode ==
    \/ DecodeHeader
    \/ PlayerListEntry
    \/ ReforgedRecord
    \/ GameStartRecord
    \/ SlotRecord
    \/ GameStartEnd
    \/ BeginReplayData
    \/ RecordLeaveGame
    \/ RecordSkip
    \/ RecordTimeSlot
    \/ RecordChatMessage
    \/ RecordEnd
    \/ RecordUnknown

SpecDecode == InitDecode /\ [][NextDecode]_vars

(***************************************************************************)
(* Properties of the whole decode                                          *)
(***************************************************************************)
\* C12: when the record id that follows the PlayerList entries and the
\* Reforged records is not 0x19, the decode panics there, whatever bytes
\* follow, and no report is ever returned by a decode that panicked.
C12_NoGameStartRecordFails ==
    /\ [][pc = "game_start" /\ next_record_id # 25
             => pc' = "panic" /\ report' = <<>>]_vars
    /\ [](pc = "panic" => report = <<>>)

\* the decode panicked at record id 0xC8, read after two PlayerList entries
\* and a Reforged record and followed by more than 128 bytes
C12_Witness ==
    /\ pc = "panic"
    /\ next_record_id = 200
    /\ ByteAt(data, pos - 1) = 200
    /\ BytesAt(data, pos - 9, 8) = <<57, 3, 2, 0, 0, 0, 9, 9>>
    /\ Cardinality(DOMAIN player_list) = 3
    /\ CanRead(data, pos, 128)
    /\ report = <<>>

\* the record ids C13 lists as known
C13_ListedIds ==
    {23, 26, 27, 28, 30, 31, 32, 34, 35, 47, 0}

\* C13: on a record id outside the listed ones the record loop stops
\* without a panic and without moving the cursor, and the report holds
\* the chat, the actions and the players as the records before it left them.
C13_UnknownRecordStopsCleanly ==
    [][pc = "records" /\ next_record_id \notin C13_ListedIds
          => /\ pc' = "done"
             /\ pos' = pos
             /\ report'.chat = chat
             /\ report'.actions = actions
             /\ report'.players = player_list
             /\ report'.metadata.saving_player_id = last_leaver_index]_vars

\* the decode returned at record id 0x99 with one chat message parsed before
\* it; a 0x17 leave record of player 2 follows the id and left no trace
C13_Witness ==
    /\ pc = "done"
    /\ next_record_id = 153
    /\ CanRead(data, pos, 14)
    /\ ByteAt(data, pos) = 23
    /\ ByteAt(data, pos + 5) = 2
    /\ Len(report.chat) = 1
    /\ 2 \in DOMAIN report.players
    /\ report.players[2].leave_reason = "UNKNOWN"
    /\ report.metadata.saving_player_id = 0

(***************************************************************************)
(* Inputs of the opcode walk: streams whose first record is a TimeSlot     *)
(* made of the actor blocks below                                          *)
(***************************************************************************)
MaxWalkBlocks == 2

\* an actor block whose declared length is blen whatever its bytes are
EncBlockDeclared(actor, blen, ops) ==
    <<actor>> \o LE16(blen) \o ops

\* empty blocks of a player and of a stranger; blocks that meet opcode 0x99
\* first or after a PAUSE; blocks that fit; blocks whose last body (14-byte
\* skip, 8*1-byte skip, cstring) runs past the declared length
WalkBlocks ==
    { EncActionBlock(1, <<>>),
      EncActionBlock(3, <<>>),
      EncActionBlock(1, <<153, 7>>),
      EncActionBlock(2, <<1, 153, 7, 7>>),
      EncActionBlock(2, <<2, 104, 1, 0, 0, 0, 2, 0, 0, 0>>),
      EncActionBlock(1, <<6, 115, 0>>),
      EncBlockDeclared(1, 1, <<16>> \o Repeat(9, 14)),
      EncBlockDeclared(2, 2, <<1, 22, 0, 1, 0>> \o Repeat(9, 8)),
      EncBlockDeclared(1, 1, <<6, 115, 0>>) }

WalkTimeSlots ==
    { EncTimeSlot(31, 100, Concat(bs)) :
        bs \in UNION { [1..n -> WalkBlocks] : n \in 1..MaxWalkBlocks } }

\* what follows the TimeSlot
WalkFollowers ==
    { <<0>>,
      <<153>>,
      EncChatMessage(1, 16, <<2, 0, 0, 0>>, <<97>>) \o <<0>>,
      EncLeaveGame(<<12, 0, 0, 0>>, 1, <<0, 0, 0, 0>>) \o <<0>>,
      <<26, 0, 0, 0, 0>> \o EncTimeSlot(30, 50, EncActionBlock(2, <<1>>)) \o <<0>> }

\* TimeSlots whose declared length is not that of their blocks: a length
\* below 2; one byte more than the block, which leaves a remainder of 1;
\* a block that declares 1 byte and whose 0x10 body seeks over 14 more
ShortTimeSlots ==
    { <<31>> \o LE16(1) \o LE16(100),
      <<31>> \o LE16(2 + 4 + 1) \o LE16(100) \o EncActionBlock(1, <<1>>) \o <<2>>,
      <<31>> \o LE16(2 + 4) \o LE16(100)
             \o EncBlockDeclared(1, 1, <<16>> \o Repeat(9, 14)) }

WalkStreams ==
    { StreamPrefix \o t \o f :
        t \in WalkTimeSlots \cup ShortTimeSlots, f \in WalkFollowers }

\* the state when line 497 is reached
InitWalk ==
    /\ overflow_checks \in BOOLEAN
    /\ pointer_width = 32
    /\ eof_seeks_end = TRUE
    /\ log_enabled = FALSE
    /\ ContainerIdle
    /\ data \in WalkStreams
    /\ pos = Len(StreamPrefix)
    /\ player_list = PrefixPlayers
    /\ slots = <<>>
    /\ count_slotrecords = 0
    /\ next_record_id = 25
    /\ chat = <<>>
    /\ actions = <<>>
    /\ current_timestamp = 0
    /\ records = <<>>
    /\ action_records = <<>>
    /\ last_leaver_index = 0
    /\ leave_log = <<>>
    /\ walk_log = <<>>
    /\ report = <<>>
    /\ pc = "replay_data"

SpecWalk == InitWalk /\ [][Next]_vars

(***************************************************************************)
(* Properties of the opcode walk                                           *)
(***************************************************************************)
\* the opcodes with an arm of their own in the dispatch (lines 574-721)
DispatchedOpcodes ==
    { e[1] : e \in FixedBodies } \cup {3, 6, 22, 23, 96, 104}

\* the record loop is about to handle a TimeSlot
AtTimeSlot ==
    pc = "records" /\ next_record_id \in {30, 31}

\* the TimeSlot at the cursor is whole and holds exactly one actor block,
\* of declared length blen, and a record id follows it
LoneBlock(blen) ==
    /\ CanRead(data, pos, 7 + blen + 1)
    /\ parse_word(BytesAt(data, pos, 2)) = 2 + 3 + blen
    /\ parse_word(BytesAt(data, pos + 5, 2)) = blen

\* C14 as stated: an opcode outside the dispatch table does not fail the
\* decode; no action is appended for it, the cursor ends block_len bytes
\* after the start of the block and the next record is parsed.  Stated for
\* a TimeSlot whose only block starts with such an opcode, and for every
\* walk that ended at such an opcode.
C14_UnknownOpcodeSkipsBlock ==
    /\ [][AtTimeSlot /\ (\E blen \in 1..4 :
                            /\ LoneBlock(blen)
                            /\ ByteAt(data, pos + 7) \notin DispatchedOpcodes)
             => /\ pc' = "records"
                /\ actions' = actions
                /\ pos' = pos + 7 + parse_word(BytesAt(data, pos + 5, 2)) + 1]_vars
    /\ [](\A j \in 1..Len(walk_log) :
             walk_log[j].unknown_opcode
                => walk_log[j].end = walk_log[j].start + walk_log[j].block_len)

\* the stream of C15: PlayerRecord (host, id 1, "Alice"), GameName "G", an
\* encoded-settings field that is the single byte 0x00, no further player,
\* a GameStartRecord with no slot record, and the 0x00 record
C15_MinimalStream ==
    EncHeader(1, Alice, <<>>, <<0>>) \o <<25>> \o NoSlots \o <<0>>

\* C15 as stated: the decode of the minimal stream does not fail, and it
\* returns saving_player_id 0, the players {1: Alice} and empty slots, chat
\* and actions.
C15_MinimalStreamDecodes ==
    data = C15_MinimalStream =>
        /\ pc # "panic"
        /\ pc = "done" =>
              /\ report.version = 1
              /\ report.metadata.saving_player_id = 0
              /\ DOMAIN report.players = {1}
              /\ report.players[1].battle_tag = Alice
              /\ report.slots = <<>>
              /\ report.chat = <<>>
              /\ report.actions = <<>>

(***************************************************************************)
(* Inputs of the slot loop for every value of the count byte               *)
(***************************************************************************)
\* data_length, the count byte c, c slot records (the j-th with player id j
\* and color byte j % 24), random seed, selection mode, start spot count,
\* the 0x00 record
SlotTableOf(c) ==
    <<0, 0, c>>
    \o [n \in 1..(9 * c) |->
          LET j == ((n - 1) \div 9) + 1
          IN  EncSlot(j, 2, j % 24, 1, 0)[((n - 1) % 9) + 1]]
    \o <<0, 0, 0, 0, 0, 0>> \o <<0>>

\* every count with its table; nine more bytes after the stream of the
\* counts 0 and 1, which no read reaches
SlotCountStreams ==
    { PlainHeader \o <<25>> \o SlotTableOf(c) : c \in Byte }
    \cup { PlainHeader \o <<25>> \o SlotTableOf(c) \o Repeat(0, 9) : c \in {0, 1} }

\* the state when line 334 is reached
InitSlotCounts ==
    /\ overflow_checks \in BOOLEAN
    /\ pointer_width = 32
    /\ eof_seeks_end = TRUE
    /\ log_enabled = FALSE
    /\ ContainerIdle
    /\ data \in SlotCountStreams
    /\ pos = 0
    /\ next_record_id = 0
    /\ player_list = <<>>
    /\ slots = <<>>
    /\ count_slotrecords = 0
    /\ chat = <<>>
    /\ actions = <<>>
    /\ current_timestamp = 0
    /\ records = <<>>
    /\ action_records = <<>>
    /\ last_leaver_index = 0
    /\ leave_log = <<>>
    /\ walk_log = <<>>
    /\ report = <<>>
    /\ pc = "player_record"

NextSlotCounts ==
    \/ DecodeHeader
    \/ GameStartRecord
    \/ SlotRecord
    \/ GameStartEnd
    \/ BeginReplayData
    \/ RecordEnd

SpecSlotCounts == InitSlotCounts /\ [][NextSlotCounts]_vars

\* C16: the slot loop starts from the count byte read after the 0x19 record,
\* each iteration consumes 9 bytes and appends the entry read there, the
\* loop ends when count_slotrecords entries are in `slots`, and that list
\* is the one the report returns.
C16_SlotsMatchCount ==
    /\ [][pc = "game_start" /\ pc' = "slots"
             => /\ next_record_id = 25
                /\ count_slotrecords' = ByteAt(data, pos + 2)
                /\ slots' = <<>>]_vars
    /\ [][pc = "slots" /\ pc' = "slots"
             => /\ Len(slots) < count_slotrecords
                /\ pos' = pos + 9
                /\ Len(slots') = Len(slots) + 1
                /\ SubSeq(slots', 1, Len(slots)) = slots
                /\ Last(slots').player_id = ByteAt(data, pos)
                /\ Last(slots').handicap_percent = ByteAt(data, pos + 8)]_vars
    /\ [](pc \in {"replay_data", "records", "done"}
             => Len(slots) = count_slotrecords)
    /\ [](Returned => report.slots = slots)

\* a report with 255 slots was returned, the last of them read last
C16_Witness ==
    /\ Returned
    /\ count_slotrecords = 255
    /\ Len(report.slots) = 255
    /\ report.slots[1].player_id = 1
    /\ report.slots[255].player_id = 255

\* the elements of a sequence
Range(s) ==
    { s[j] : j \in 1..Len(s) }

\* C17: the keys of `players` are the PlayerRecord's player_id and the
\* player_ids of the PlayerList entries, no more and no less: the header
\* puts the first key, each PlayerList entry adds its id, and nothing
\* after the PlayerList (0x17 records, TimeSlot action blocks, 0x20 chat
\* records included) adds or removes a key.
C17_PlayerKeys ==
    /\ [][pc = "player_record" /\ pc' # "panic"
             => DOMAIN player_list' = {ByteAt(data, pos + 1)}]_vars
    /\ [][pc = "player_list" /\ pc' # "panic"
             => DOMAIN player_list' = DOMAIN player_list \cup {ByteAt(data, pos)}]_vars
    /\ [][pc \notin {"player_record", "player_list"}
             => DOMAIN player_list' = DOMAIN player_list]_vars
    /\ [](Returned => DOMAIN report.players = DOMAIN player_list)

\* a report was returned after a 0x17 record of id 5, an action block of
\* id 6 and a chat record of id 5; its keys are the host and two PlayerList
\* entries
C17_Witness ==
    /\ Returned
    /\ 5 \in Range(leave_log)
    /\ \E j \in 1..Len(walk_log) : walk_log[j].actor = 6
    /\ \E j \in 1..Len(report.chat) : report.chat[j].sender_player_id = 5
    /\ DOMAIN report.players = {1, 2, 3}

(***************************************************************************)
(* Inputs of the whole of from_bytes: files of every version byte with one *)
(* block that holds a stream which decodes                                 *)
(***************************************************************************)
\* the 48-byte header alone: version at 0x24, num_data_blocks at 0x2C
EncFixedHeader(v, n) ==
    [j \in 1..48 |-> IF j = 37 THEN v ELSE IF j = 45 THEN n ELSE 0]

\* a stream of 136 bytes: the plain header, a GameStartRecord without
\* slots, the 0x00 record, and 80 bytes that are never read
LongStream ==
    PlainHeader \o <<25>> \o NoSlots \o <<0>> \o Repeat(0, 80)

\* the block lies at offset 64 or at offset 68, whatever the version says
VersionFiles ==
    { EncFixedHeader(v, 1) \o Repeat(0, pad) \o GoodBlock(LongStream) :
        v \in Byte, pad \in {16, 20} }

\* the state when from_bytes is entered
InitFile ==
    /\ overflow_checks \in BOOLEAN
    /\ pointer_width = 32
    /\ eof_seeks_end = TRUE
    /\ log_enabled \in BOOLEAN
    /\ bytes \in VersionFiles
    /\ reader_pos = 0
    /\ version = -1
    /\ num_data_blocks = <<0, 0>>
    /\ k = 0
    /\ i = <<0, 0>>
    /\ inflated = <<>>
    /\ data = <<>>
    /\ pos = 0
    /\ next_record_id = 0
    /\ player_list = <<>>
    /\ slots = <<>>
    /\ count_slotrecords = 0
    /\ chat = <<>>
    /\ actions = <<>>
    /\ current_timestamp = 0
    /\ records = <<>>
    /\ action_records = <<>>
    /\ last_leaver_index = 0
    /\ leave_log = <<>>
    /\ walk_log = <<>>
    /\ report = <<>>
    /\ pc = "header"

NextFile ==
    \/ ReadHeader
    \/ BlockIter
    \/ BlocksDone
    \/ StartDecode
    \/ DecodeHeader
    \/ GameStartRecord
    \/ GameStartEnd
    \/ BeginReplayData
    \/ RecordEnd

SpecFile == InitFile /\ [][NextFile]_vars

(***************************************************************************)
(* Properties of the whole of from_bytes                                   *)
(***************************************************************************)
\* the offset C18 gives for the first block header
C18_FirstBlockOffset ==
    IF ByteAt(bytes, 36) = 0 THEN 64 ELSE 68

\* C18: after the header the reader stands at offset 64 when the version
\* byte is 0 and at 68 for every other value, the first block header is
\* read there, and the version of a returned report is the version byte.
C18_HeaderLengthByVersion ==
    /\ [][pc = "header" /\ pc' = "blocks"
             => /\ reader_pos' = C18_FirstBlockOffset
                /\ version' = ByteAt(bytes, 36)
                /\ k' = 0]_vars
    /\ [](pc = "blocks" /\ k = 0 => reader_pos = C18_FirstBlockOffset)
    /\ [](Returned => report.version = ByteAt(bytes, 36))

\* a report was returned for version byte 0xFF from a file whose block
\* lies at offset 68
C18_Witness ==
    /\ Returned
    /\ ByteAt(bytes, 36) = 255
    /\ report.version = 255
    /\ Len(inflated) = 1
    /\ data = LongStream
    /\ DOMAIN report.players = {1}

\* the walks that the step just taken added to walk_log
NewWalks ==
    { walk_log'[j] : j \in (Len(walk_log) + 1)..Len(walk_log') }

\* C19 as stated: an action block of block_len 0 appends nothing to actions
\* and chat, consumes exactly its 3 header bytes, lowers the remaining
\* length by 3 and sets left_at of its actor to the current timestamp.
\* Stated for a TimeSlot whose only block is such a block, and for every
\* such block that was walked.
C19_EmptyBlockAdvances ==
    /\ [][AtTimeSlot /\ LoneBlock(0)
             => /\ pc' = "records"
                /\ pos' = pos + 7 + 1
                /\ actions' = actions
                /\ chat' = chat
                /\ Len(walk_log') = Len(walk_log) + 1]_vars
    /\ [](\A j \in 1..Len(walk_log) :
             walk_log[j].block_len = 0
                => /\ walk_log[j].end = walk_log[j].start
                   /\ walk_log[j].actions_after = walk_log[j].actions_before
                   /\ walk_log[j].chat_after = walk_log[j].chat_before
                   /\ walk_log[j].len_after = walk_log[j].len_before - 3)
    /\ [][AtTimeSlot
             => \A w \in NewWalks :
                   w.block_len = 0 /\ w.actor \in DOMAIN player_list
                      => player_list'[w.actor].left_at = current_timestamp']_vars

\* C20 as stated: for every actor block that was walked, the cursor
\* advanced by exactly the declared block_len between the end of the
\* block's header and the end of its opcode walk.
C20_WalkConsumesBlockLen ==
    \A j \in 1..Len(walk_log) :
        walk_log[j].end - walk_log[j].start = walk_log[j].block_len

(***************************************************************************)
(* Properties of action 0x60                                               *)
(***************************************************************************)
\* the TimeSlot at the cursor holds exactly one actor block, and the block
\* is one 0x60 action whose text has n bytes, all ASCII
LoneCommand(n) ==
    /\ LoneBlock(10 + n)
    /\ ByteAt(data, pos + 7) = 96
    /\ \A j \in 1..n : ByteAt(data, pos + 15 + j) \in 1..127
    /\ ByteAt(data, pos + 16 + n) = 0

\* C21: a 0x60 action appends exactly one entry to chat (the command text,
\* the current timestamp, the actor as sender, no flag, no recipient) when
\* no entry of chat has the same text less than 500 ms from the current
\* timestamp, and leaves chat unchanged otherwise; a 0x20 message followed
\* within 500 ms by a 0x60 command with the same text stays the only entry.
C21_CommandAppendsUnlessNear ==
    [][AtTimeSlot /\ (\E n \in 1..2 : LoneCommand(n))
         => LET n == CHOOSE m \in 1..2 : LoneCommand(m)
                text == BytesAt(data, pos + 16, n)
                now == current_timestamp + parse_word(BytesAt(data, pos + 2, 2))
                near == { j \in 1..Len(chat) :
                            /\ chat[j].message = text
                            /\ chat[j].timestamp - now < 500
                            /\ now - chat[j].timestamp < 500 }
            IN  /\ pc' = "records"
                /\ near # {} => chat' = chat
                /\ near = {} =>
                      /\ Len(chat') = Len(chat) + 1
                      /\ SubSeq(chat', 1, Len(chat)) = chat
                      /\ Last(chat').message = text
                      /\ Last(chat').timestamp = now
                      /\ Last(chat').sender_player_id = ByteAt(data, pos + 4)
                      /\ Last(chat').flag = None
                      /\ Last(chat').recipient_slot_number = None]_vars

\* a 0x20 message "a" at 0 ms was followed at 499 ms by a 0x60 command "a",
\* and chat still holds the 0x20 entry alone
C21_Witness ==
    /\ pc \in {"records", "done"}
    /\ current_timestamp = 499
    /\ 96 \in DOMAIN action_records
    /\ Len(chat) = 1
    /\ chat[1].message = <<97>>
    /\ chat[1].timestamp = 0
    /\ chat[1].flag = Some(16)
    /\ chat[1].sender_player_id = 1

\* a 0x60 command "a" was appended although chat held a 0x20 "a" 749 ms back
C21_WitnessAppended ==
    /\ pc \in {"records", "done"}
    /\ current_timestamp = 749
    /\ Len(chat) = 2
    /\ chat[1].message = <<97>> /\ chat[1].flag = Some(16)
    /\ chat[2].message = <<97>> /\ chat[2].flag = None
    /\ chat[2].timestamp = 749

(***************************************************************************)
(* Properties of the actions list                                          *)
(***************************************************************************)
\* the action type the table gives for an opcode
C22_TypeOf(op) ==
    CASE op = 1 -> "PAUSE"
      [] op = 2 -> "RESUME"
      [] op = 6 -> "SAVE_GAME"
      [] op = 7 -> "SAVE_GAME_DONE"
      [] op = 104 -> "MINIMAP_SIGNAL"
      [] OTHER -> "UNKNOWN"

C22_Types ==
    {"PAUSE", "RESUME", "SAVE_GAME", "SAVE_GAME_DONE", "MINIMAP_SIGNAL", "UNKNOWN"}

RECURSIVE C22_Sum(_, _)
C22_Sum(t, ops) ==
    IF ops = {} THEN 0
    ELSE LET op == CHOOSE x \in ops : TRUE
         IN  t[op] + C22_Sum(t, ops \ {op})

\* how often opcodes of the dispatch table with action type ty were read
C22_Dispatched(ty) ==
    C22_Sum(action_records,
            { op \in DOMAIN action_records \cap DispatchedOpcodes :
                C22_TypeOf(op) = ty })

\* C22: every entry appended to actions carries the actor id of its action
\* block and the sum of the increments of the TimeSlot records handled up to
\* and including its own; each opcode of the dispatch table appends exactly
\* one entry, of the type the table gives; records other than 0x1E / 0x1F
\* leave current_timestamp unchanged.
C22_ActionsCarryActorAndTime ==
    /\ [][AtTimeSlot /\ pc' # "panic"
            => LET now == current_timestamp + parse_word(BytesAt(data, pos + 2, 2))
               IN  /\ current_timestamp' = now
                   /\ SubSeq(actions', 1, Len(actions)) = actions
                   /\ \A j \in (Len(actions) + 1)..Len(actions') :
                         actions'[j].timestamp = now]_vars
    /\ [][pc = "records" /\ ~AtTimeSlot
            => current_timestamp' = current_timestamp /\ actions' = actions]_vars
    /\ [](\A j \in 1..Len(actions) :
             \E n \in 1..Len(walk_log) :
                /\ walk_log[n].actions_before < j
                /\ j <= walk_log[n].actions_after
                /\ actions[j].player_id = walk_log[n].actor
                /\ actions[j].player_id = ByteAt(data, walk_log[n].start - 3))
    /\ [](\A ty \in C22_Types :
             Cardinality({ j \in 1..Len(actions) : actions[j].action_type = ty })
               = C22_Dispatched(ty))
    /\ [](\A j \in 1..Len(actions) : actions[j].action_type \in C22_Types)

\* after TimeSlots with increments 100 and 50 and a skipped record between
\* them: a RESUME and a MINIMAP_SIGNAL of actor 2 at 100, a SAVE_GAME of
\* actor 1 at 100, and a PAUSE of actor 2 at 150
C22_Witness ==
    /\ Returned
    /\ current_timestamp = 150
    /\ Len(actions) = 4
    /\ actions[1].player_id = 2 /\ actions[1].action_type = "RESUME"
    /\ actions[1].timestamp = 100
    /\ actions[2].player_id = 2 /\ actions[2].action_type = "MINIMAP_SIGNAL"
    /\ actions[3].player_id = 1 /\ actions[3].action_type = "SAVE_GAME"
    /\ actions[3].timestamp = 100
    /\ actions[4].player_id = 2 /\ actions[4].action_type = "PAUSE"
    /\ actions[4].timestamp = 150

(***************************************************************************)
(* Inputs of the 0x17 handler: streams of two records, LeaveGame records   *)
(* with named and unnamed reasons for players 1, 2 and the stranger 3      *)
(* among them                                                              *)
(***************************************************************************)
LeaveRecords ==
    { EncLeaveGame(r, q, res) :
        r \in { <<1, 0, 0, 0>>, <<12, 0, 0, 0>>, <<12, 1, 0, 0>>, <<0, 0, 0, 0>> },
        q \in {1, 2, 3},
        res \in { <<0, 239, 205, 171>>, <<7, 1, 0, 0>> } }
    \cup { EncTimeSlot(31, 100, EncActionBlock(1, <<1>>) \o EncActionBlock(2, <<2>>)),
           EncChatMessage(1, 16, <<2, 0, 0, 0>>, <<97>>),
           <<26, 0, 0, 0, 0>> }

LeaveStreams ==
    { StreamPrefix \o a \o b \o e :
        a \in LeaveRecords, b \in LeaveRecords, e \in StreamEnds }

\* the state when line 497 is reached
InitLeave ==
    /\ overflow_checks \in BOOLEAN
    /\ pointer_width = 32
    /\ eof_seeks_end = TRUE
    /\ log_enabled = FALSE
    /\ ContainerIdle
    /\ data \in LeaveStreams
    /\ pos = Len(StreamPrefix)
    /\ player_list = PrefixPlayers
    /\ slots = <<>>
    /\ count_slotrecords = 0
    /\ next_record_id = 25
    /\ chat = <<>>
    /\ actions = <<>>
    /\ current_timestamp = 0
    /\ records = <<>>
    /\ action_records = <<>>
    /\ last_leaver_index = 0
    /\ leave_log = <<>>
    /\ walk_log = <<>>
    /\ report = <<>>
    /\ pc = "replay_data"

SpecLeave == InitLeave /\ [][Next]_vars

\* the record loop is about to handle a LeaveGame record that is whole and
\* followed by a record id
AtLeaveGame ==
    pc = "records" /\ next_record_id = 23 /\ CanRead(data, pos, 14)

\* C23: a 0x17 record for a player id p that is a key of players sets
\* leave_reason of p to the coerced reason (0x01 and 0x0C named, any other
\* dword UNKNOWN) and result_byte of p to the result dword modulo 256, so
\* the last such record for p decides both; battle_tag and left_at of p and
\* every field of every other player are unchanged.
C23_LeaveSetsReasonAndResult ==
    [][AtLeaveGame
         => LET q == ByteAt(data, pos + 4)
                reason == BytesAt(data, pos, 4)
                coerced == IF reason = <<1, 0, 0, 0>>
                           THEN "CONNECTION_CLOSED_BY_REMOTE_GAME"
                           ELSE IF reason = <<12, 0, 0, 0>>
                           THEN "CONNECTION_CLOSED_BY_LOCAL_GAME"
                           ELSE "UNKNOWN"
            IN  /\ pc' = "records"
                /\ DOMAIN player_list' = DOMAIN player_list
                /\ \A o \in DOMAIN player_list \ {q} :
                      player_list'[o] = player_list[o]
                /\ q \in DOMAIN player_list =>
                      /\ player_list'[q].leave_reason = coerced
                      /\ player_list'[q].result_byte = ByteAt(data, pos + 5)
                      /\ player_list'[q].battle_tag = player_list[q].battle_tag
                      /\ player_list'[q].left_at = player_list[q].left_at]_vars

\* player 1 acted at 100 ms and then left with reason 0x0000010C and the
\* result 0x00000107: the reason is UNKNOWN, the result byte 7, and left_at
\* is still 100
C23_Witness ==
    /\ Returned
    /\ leave_log = <<1>>
    /\ report.players[1].leave_reason = "UNKNOWN"
    /\ report.players[1].result_byte = 7
    /\ report.players[1].left_at = 100
    /\ report.players[1].battle_tag = <<65>>
    /\ report.players[2] = [PrefixPlayers[2] EXCEPT !.left_at = 100]

\* player 1 left twice, with reason 0x0C first and 0x01 last
C23_WitnessLast ==
    /\ Returned
    /\ leave_log = <<1, 1>>
    /\ report.players[1].leave_reason = "CONNECTION_CLOSED_BY_REMOTE_GAME"
    /\ report.players[1].result_byte = 0

(***************************************************************************)
(* Properties of left_at                                                   *)
(***************************************************************************)
\* C24 as stated: left_at of a player is the cumulative timestamp of the
\* last TimeSlot that contained an action block of that player, also a block
\* of length 0 or one ended by an unknown opcode, and 0 when there was none;
\* 0x17 records do not change it.  Stated for a TimeSlot that holds exactly
\* one action block, for the records that are no TimeSlot, and for the
\* returned report.
C24_LeftAtIsLastBlockTime ==
    /\ [][AtTimeSlot /\ (\E blen \in 0..4 : LoneBlock(blen)) /\ pc' # "panic"
            => LET q == ByteAt(data, pos + 4)
                   now == current_timestamp + parse_word(BytesAt(data, pos + 2, 2))
               IN  \A o \in DOMAIN player_list :
                      player_list'[o].left_at =
                         IF o = q THEN now ELSE player_list[o].left_at]_vars
    /\ [][pc = "records" /\ ~AtTimeSlot /\ pc' # "panic"
            => \A o \in DOMAIN player_list :
                  player_list'[o].left_at = player_list[o].left_at]_vars
    /\ [](Returned => report.players = player_list)
    /\ [](walk_log = <<>> /\ current_timestamp = 0
            => \A o \in DOMAIN player_list : player_list[o].left_at = 0)

\* what the handler does: left_at of a player is the timestamp of the last
\* action block of that player that the block loop read, and 0 when the
\* loop read none
C24_LeftAtIsLastWalkTime ==
    \A o \in DOMAIN player_list :
       LET mine == { n \in 1..Len(walk_log) : walk_log[n].actor = o }
       IN  player_list[o].left_at =
              IF mine = {} THEN 0
              ELSE walk_log[CHOOSE n \in mine : \A m \in mine : m <= n].timestamp

(***************************************************************************)
(* Properties of the 0x20 handler                                          *)
(***************************************************************************)
\* the record loop is about to handle a ChatMessage record that is whole,
\* with a text of n bytes, and followed by a record id
AtChatMessage(n) ==
    /\ pc = "records"
    /\ next_record_id = 32
    /\ CanRead(data, pos, 8 + n + 2)
    /\ \A j \in 1..n : ByteAt(data, pos + 7 + j) # 0
    /\ ByteAt(data, pos + 8 + n) = 0

\* C25 as stated: for every 32-bit recipient of a 0x20 record, 0 and 1
\* included, the record is decoded without failure and recipient_slot_number
\* is the low byte of (recipient - 2), read as a signed byte.
C25_RecipientDecodesForEveryRaw ==
    [][(\E n \in 0..2 : AtChatMessage(n))
         => LET low == (ByteAt(data, pos + 4) + 254) % 256
            IN  /\ pc' = "records"
                /\ Len(chat') = Len(chat) + 1
                /\ Last(chat').recipient_slot_number =
                      Some(IF low >= 128 THEN low - 256 ELSE low)]_vars

(***************************************************************************)
(* decode_gamesettings applied to encoded inputs: bytes without a 0x00,    *)
(* with mask bytes 0x54 and 0xAA among them, followed by nothing, by the   *)
(* 0x00, or by the 0x00 and further bytes.  report holds the value the     *)
(* function returned.                                                      *)
(***************************************************************************)
MaxEnc == 10

SettingsInputs ==
    { body \o tail :
        body \in UNION { [1..n -> {84, 170}] : n \in 0..MaxEnc },
        tail \in { <<>>, <<0>>, <<0, 84>>, <<0, 0, 170>> } }

InitSettings ==
    /\ overflow_checks \in BOOLEAN
    /\ pointer_width = 32
    /\ eof_seeks_end = TRUE
    /\ log_enabled = FALSE
    /\ ContainerIdle
    /\ data \in SettingsInputs
    /\ pos = 0
    /\ next_record_id = 0
    /\ player_list = <<>>
    /\ slots = <<>>
    /\ count_slotrecords = 0
    /\ chat = <<>>
    /\ actions = <<>>
    /\ current_timestamp = 0
    /\ records = <<>>
    /\ action_records = <<>>
    /\ last_leaver_index = 0
    /\ leave_log = <<>>
    /\ walk_log = <<>>
    /\ report = <<>>
    /\ pc = "settings"

\* one call of decode_gamesettings (lines 229-246) on data
DecodeGameSettings ==
    /\ pc = "settings"
    /\ LET r == decode_gamesettings(data)
       IN  IF r.ok THEN report' = r.dec /\ pc' = "done"
           ELSE report' = report /\ pc' = "panic"
    /\ UNCHANGED <<buildVars, containerVars, data, pos, player_list, slots,
                   count_slotrecords, recordVars>>

NextSettings ==
    DecodeGameSettings

SpecSettings == InitSettings /\ [][NextSettings]_vars

(***************************************************************************)
(* Properties of decode_gamesettings                                       *)
(***************************************************************************)
\* the index, from 0, of the first 0x00 of enc
C26_FirstNul(enc) ==
    CHOOSE z \in 0..(Len(enc) - 1) :
        enc[z + 1] = 0 /\ \A j \in 1..z : enc[j] # 0

\* the output the framing gives for the z bytes before the first 0x00: the
\* n-th output byte comes from index n + (n - 1) \div 7, the n-th index
\* that is no multiple of 8
C26_Decoded(enc, z) ==
    [n \in 1..(z - (z + 7) \div 8) |->
        LET idx == n + (n - 1) \div 7
            mask == enc[8 * (idx \div 8) + 1]
            bit == (mask \div (2 ^ (idx % 8))) % 2
        IN  IF bit = 1 THEN enc[idx + 1] ELSE enc[idx + 1] - 1]

\* C26: decode_gamesettings stops at the first 0x00 and returns, in order,
\* one byte for each byte before it whose index i is no multiple of 8: the
\* byte itself when bit (i mod 8) of the mask byte at index 8 * (i div 8) is
\* 1, the byte minus 1 otherwise; mask bytes give nothing; an empty input
\* is an error.
C26_DecodeGameSettings ==
    [][pc = "settings"
         => /\ (\E j \in 1..Len(data) : data[j] = 0)
                  => /\ pc' = "done"
                     /\ report' = C26_Decoded(data, C26_FirstNul(data))
            /\ data = <<>> => pc' = "panic"]_vars

\* an input of two frames was decoded: ten bytes before the 0x00, a mask
\* byte at index 0 and at index 8, eight bytes returned, some of them
\* lowered by 1 and some not
C26_Witness ==
    /\ pc = "done"
    /\ Len(data) >= 10
    /\ C26_FirstNul(data) = 10
    /\ Len(report) = 8
    /\ \E a, b \in 1..7 : report[a] = data[a + 1] /\ report[b] = data[b + 1] - 1
    /\ report[8] = data[10] - 1

(***************************************************************************)
(* Properties of len_following                                             *)
(***************************************************************************)
\* C27 as stated: while a TimeSlot record is handled no subtraction from
\* len_following goes below 0, whatever the input: not the 2 of the
\* increment, not the 3 of a block header, not the bytes a block consumed.
C27_LenFollowingNeverUnderflows ==
    AtTimeSlot =>
        ~TimeSlot(data, pos, chat, actions, player_list, action_records,
                  current_timestamp).underflow

\* the TimeSlots whose subtractions all stay at or above 0: with overflow
\* checks only these are handled without a panic of the subtraction
C27_UnderflowPanics ==
    [][AtTimeSlot /\ overflow_checks
          /\ TimeSlot(data, pos, chat, actions, player_list, action_records,
                      current_timestamp).underflow
         => pc' = "panic"]_vars

(***************************************************************************)
(* Inputs of the termination of from_bytes: files of one block whose       *)
(* stream runs through every loop (a PlayerList entry, a Reforged record,  *)
(* a slot record, two records and an end, among the ends a skipped record  *)
(* cut short), every truncation of such a stream, a Reforged record whose  *)
(* length is 2^32 - 1; files with more or fewer blocks than num_data_blocks *)
(* says, and every truncation of a file.                                   *)
(***************************************************************************)
TermRecords ==
    RecordTemplates \cup ShortTimeSlots
    \cup { EncTimeSlot(31, 100, b) : b \in WalkBlocks }

TermStreams ==
    LET prefix == PlainHeader \o <<22, 2, 66, 0, 0>> \o <<57, 3, 2, 0, 0, 0, 9, 9>>
                  \o <<25>> \o <<0, 0, 1>> \o EncSlot(1, 2, 0, 1, 0)
                  \o <<0, 0, 0, 0, 0, 0>>
        whole == prefix
                 \o EncTimeSlot(31, 100, EncActionBlock(1, <<1>>)
                                         \o EncActionBlock(2, EncChatCommand(<<97>>)))
                 \o EncChatMessage(1, 16, <<2, 0, 0, 0>>, <<97>>) \o <<0>>
    IN  { prefix \o a \o b \o e :
            a \in TermRecords, b \in TermRecords, e \in StreamEnds \cup { <<26, 0>> } }
        \cup { Take(whole, n) : n \in 0..Len(whole) }
        \cup { PlainHeader \o <<57, 1, 255, 255, 255, 255>> \o <<25>> \o NoSlots \o <<0>> }

TermFiles ==
    LET head(n) == EncFixedHeader(1, n) \o Repeat(0, 20)
        whole == head(1) \o GoodBlock(LongStream)
    IN  { head(1) \o GoodBlock(s) : s \in TermStreams }
        \cup { head(n) \o GoodBlock(LongStream) \o e :
                 n \in {0, 1, 3, 255}, e \in FileEnds }
        \cup { Take(whole, n) : n \in 0..Len(whole) }

\* the state when from_bytes is entered
InitTerm ==
    /\ overflow_checks \in BOOLEAN
    /\ pointer_width = 32
    /\ eof_seeks_end \in BOOLEAN
    /\ log_enabled = FALSE
    /\ bytes \in TermFiles
    /\ reader_pos = 0
    /\ version = -1
    /\ num_data_blocks = <<0, 0>>
    /\ k = 0
    /\ i = <<0, 0>>
    /\ inflated = <<>>
    /\ data = <<>>
    /\ pos = 0
    /\ next_record_id = 0
    /\ player_list = <<>>
    /\ slots = <<>>
    /\ count_slotrecords = 0
    /\ chat = <<>>
    /\ actions = <<>>
    /\ current_timestamp = 0
    /\ records = <<>>
    /\ action_records = <<>>
    /\ last_leaver_index = 0
    /\ leave_log = <<>>
    /\ walk_log = <<>>
    /\ report = <<>>
    /\ pc = "header"

NextTerm ==
    \/ ReadHeader
    \/ BlockIter
    \/ BlocksDone
    \/ StartDecode
    \/ DecodeHeader
    \/ PlayerListEntry
    \/ ReforgedRecord
    \/ GameStartRecord
    \/ SlotRecord
    \/ GameStartEnd
    \/ BeginReplayData
    \/ RecordLeaveGame
    \/ RecordSkip
    \/ RecordTimeSlot
    \/ RecordChatMessage
    \/ RecordEnd
    \/ RecordUnknown

\* the steps of the header and of the record loop
HeaderOrRecordStep ==
    \/ DecodeHeader
    \/ PlayerListEntry
    \/ ReforgedRecord
    \/ BeginReplayData
    \/ RecordLeaveGame
    \/ RecordSkip
    \/ RecordTimeSlot
    \/ RecordChatMessage
    \/ RecordEnd
    \/ RecordUnknown

\* where such a step is possible: each of these actions is total at its pc
\* (lines 337-432 and 497-790 have no state without a next statement)
AtHeaderOrRecordStep ==
    pc \in {"player_record", "player_list", "reforged", "replay_data", "records"}

\* from_bytes is one sequential call: as long as it has a next step it
\* takes it.  That is weak fairness of every step; for the steps of the
\* header and of the record loop WF_vars(HeaderOrRecordStep) is written out
\* with AtHeaderOrRecordStep for ENABLED <<HeaderOrRecordStep>>_vars.
FairTerm ==
    /\ WF_vars(NextContainer)
    /\ WF_vars(NextSlots)
    /\ \/ []<>(~AtHeaderOrRecordStep)
       \/ []<><<HeaderOrRecordStep>>_vars

SpecTerm == InitTerm /\ [][NextTerm]_vars /\ FairTerm

(***************************************************************************)
(* Termination                                                             *)
(***************************************************************************)
\* the decode has ended, with a report or with a panic
Ended ==
    pc \in {"done", "panic"}

\* C28: the decode ends on every finite input, with a report or a failure;
\* an iteration of the container loop advances the block counter, which
\* num_data_blocks bounds, and an iteration of the PlayerList loop, of the
\* Reforged loop, of the slot loop and of the record loop consumes at least
\* one byte that the stream holds, as does every actor block and every
\* action of a walk; a cursor that a skip moved past the end of the stream
\* fails the next read.
C28_DecodeTerminates ==
    /\ <>Ended
    /\ [][pc = "blocks" /\ pc' = "blocks"
            => k' = k + 1 /\ U32Less(U32Of(k), num_data_blocks)]_vars
    /\ [][pc' = pc /\ pc \in {"player_list", "reforged", "slots", "records"}
            => pos < Len(data) /\ pos < pos' /\ pos' <= Len(data)]_vars
    /\ [][pc = "records" /\ pos > Len(data) => pc' = "panic"]_vars
    /\ [](\A n \in 1..Len(walk_log) :
             /\ walk_log[n].start + (walk_log[n].actions_after
                                       - walk_log[n].actions_before)
                   <= walk_log[n].end
             /\ n > 1 => walk_log[n - 1].end + 3 <= walk_log[n].start
             /\ 3 <= walk_log[n].start /\ walk_log[n].start <= Len(data))

\* the decode ended in a panic after the skip of a 0x1A record had moved the
\* cursor past the end of the stream
C28_Witness ==
    /\ pc = "panic"
    /\ bytes # <<>>
    /\ pos > Len(data)
    /\ 26 \in DOMAIN records
    /\ Len(slots) = 1
    /\ DOMAIN player_list = {1, 2}

====
